---------------------------- MODULE Spec2Model ----------------------------
(***************************************************************************)
(* Sales pages of SalesPage.tsx: the recipe-based page (lines 1-731) and   *)
(* the simple-product page (lines 733-1283): cart, stock availability and  *)
(* checkout against the remote tables products (inventory),                *)
(* product_ingredients (recipes) and sales.  One of the two pages is       *)
(* mounted (variable page).  The form of InventoryPage (lines 1767-2193)   *)
(* that writes the stock of an item is variable inventoryPage.             *)
(*                                                                         *)
(* Numbers.  Every decimal value of the program (a DECIMAL(10,2) column,   *)
(* a JavaScript number computed from such columns) is represented by the   *)
(* integer value * Scale, Scale = 1000.  A stock of 1 kg is 1000, the same *)
(* stock in grams (item.qty * 1000) is 1000000, a recipe quantity of 200 g *)
(* is 200000.  Cart quantities of the recipe page, getMaxQuantity results  *)
(* and transaction ids are plain integers; cart quantities of the          *)
(* simple-product page are decimals (times Scale).  Recipe quantities of   *)
(* the catalogue are whole grams / whole pieces, so deduction / 1000 is    *)
(* exact in this representation.  The database rounds what it stores to    *)
(* two decimals (RoundDecimal2).                                           *)
(***************************************************************************)
EXTENDS Integers, Sequences, FiniteSets, TLC

VARIABLES
    dbProducts,            \* table products: item id -> qty (inventory rows)
    dbSales,               \* table sales: sequence of inserted rows
    dbDineInSetting,       \* table settings, key dine_in_takeout_enabled
    uuidCount,             \* number of crypto.randomUUID() values drawn so far
    checkoutCap,           \* bound of the run: checkouts that may pass validation
    loading,               \* per tab: useState loading
    inventoryItems,        \* per tab: useState inventoryItems (snapshot)
    productIngredients,    \* per tab: useState productIngredients (snapshot)
    dineInEnabled,         \* per tab: useState dineInEnabled
    cart,                  \* per tab: useState cart
    selectedPaymentMethod, \* per tab
    selectedCustomerType,  \* per tab
    selectedDineInTakeout, \* per tab
    isCheckingOut,         \* per tab
    checkout,              \* per tab: the handleCheckout call in flight (its closure)
    fetches,               \* per tab: fetchData calls in flight
    recentSales,           \* per tab: arguments passed to addRecentSale
    page,                  \* which SalesPage component is mounted
    products,              \* per tab: useState products of the simple-product page
    inventoryPage,         \* the state of the InventoryPage component
    dbIngredients          \* table product_ingredients: sequence of recipe rows

vars == << dbProducts, dbSales, dbDineInSetting, uuidCount, checkoutCap, loading,
           inventoryItems, productIngredients, dineInEnabled, cart,
           selectedPaymentMethod, selectedCustomerType, selectedDineInTakeout,
           isCheckingOut, checkout, fetches, recentSales, page, products,
           inventoryPage, dbIngredients >>

Tabs == DOMAIN cart

-----------------------------------------------------------------------------
(* Bounds of the model *)

\* checkouts that may pass validation (transaction ids drawn) in one run
MaxCheckouts == 1

\* largest quantity typed into the product modal / passed to updateCartQuantity
MaxQuantityInput == 5

-----------------------------------------------------------------------------
(* Fixed-point representation and the catalogue *)

GramsPerKg == 1000

Scale == GramsPerKg

Null == "null"

\* rows of table products (inventory items), ordered by name as fetchData orders them
ItemIds == <<"egg", "flour">>

ItemUnitType == [egg |-> "quantity", flour |-> "weight"]

\* cost per base unit: 8.00 per piece, 0.05 per gram
ItemCost == [egg |-> 8 * Scale, flour |-> 50]

\* selling_price of the rows of table products, which the simple-product
\* page sells directly
ItemSellingPrice == [egg |-> 12 * Scale, flour |-> 60 * Scale]

\* rows of table finished_products
ProductIds == {"A", "B", "Q", "Z"}

SellingPrice ==
    [A |-> 50 * Scale, B |-> 80 * Scale, Q |-> 10 * Scale, Z |-> 20 * Scale,
     D |-> 30 * Scale]

\* rows of table product_ingredients: A needs 200 g flour; B needs 300 g
\* flour and 1 egg; Q has one line of quantity 0; Z has no recipe line.
IngredientRows ==
    << [product_id |-> "A", item_id |-> "flour", qty |-> 200 * Scale],
       [product_id |-> "B", item_id |-> "flour", qty |-> 300 * Scale],
       [product_id |-> "B", item_id |-> "egg",   qty |-> 1 * Scale],
       [product_id |-> "Q", item_id |-> "flour", qty |-> 0] >>

\* stock of flour in kg (times Scale) the products table may hold at start
InitFlourStocks == {250, 1000}

InitEggStock == 3 * Scale

\* stock of flour in kg (times Scale) at start when the simple-product page
\* is mounted
SimpleInitFlourStocks == {200}

PaymentMethods == {"Cash"}

CustomerTypes == {"Regular"}

\* the page offers dine_in and takeout (lines 503, 513); the handlers treat
\* the two values alike, the model offers the first
DineOptions == {"dine_in"}

-----------------------------------------------------------------------------
(* Helpers *)

Min(a, b) == IF a < b THEN a ELSE b

\* Array.prototype.findIndex on a sequence of records keyed by field id; 0 when absent
FindItemIndex(items, id) ==
    IF \E i \in 1..Len(items) : items[i].id = id
    THEN CHOOSE i \in 1..Len(items) :
            /\ items[i].id = id
            /\ \A j \in 1..(i - 1) : items[j].id # id
    ELSE 0

\* numeric(10,2): round to two decimals, half away from zero
RoundDecimal2(v) ==
    LET step == Scale \div 100
        mag  == IF v < 0 THEN -v ELSE v
        r    == ((mag + step \div 2) \div step) * step
    IN IF v < 0 THEN -r ELSE r

\* productIngredients[productId] || []
IngredientsOf(ingredients, productId) ==
    IF productId \in DOMAIN ingredients THEN ingredients[productId] ELSE << >>

-----------------------------------------------------------------------------
(* Stock availability (pure functions of the tab's snapshot and cart) *)

\* lines 104-107
getInventoryInIngredientUnit(item) ==
    IF item.unit_type = "weight" THEN item.qty * GramsPerKg ELSE item.qty

\* cartIngredients.find(ci => ci.item_id === itemId): 0 when absent
FindIngredientIndex(cartIngredients, itemId) ==
    IF \E i \in 1..Len(cartIngredients) : cartIngredients[i].item_id = itemId
    THEN CHOOSE i \in 1..Len(cartIngredients) :
            /\ cartIngredients[i].item_id = itemId
            /\ \A j \in 1..(i - 1) : cartIngredients[j].item_id # itemId
    ELSE 0

\* CartReservedByOthers without the filter of lines 123 and 154: the line of
\* the product itself is counted as well
RECURSIVE CartReservedByAll(_, _, _, _)
CartReservedByAll(ingredients, crt, productId, itemId) ==
    IF crt = << >> THEN 0
    ELSE LET cartItem        == Head(crt)
             cartIngredients == IngredientsOf(ingredients, cartItem.product)
             k               == FindIngredientIndex(cartIngredients, itemId)
             own             == IF k # 0
                                THEN cartIngredients[k].qty * cartItem.quantity
                                ELSE 0
         IN own + CartReservedByAll(ingredients, Tail(crt), productId, itemId)

\* CartReservedByOthers that finds nothing reserved: the other cart lines are
\* left out of the availability
CartReservedByNone(ingredients, crt, productId, itemId) == 0

\* lines 122-128 and 153-159: what the cart lines of the other products
\* reserve of one ingredient (filter, then reduce from 0)
RECURSIVE CartReservedByOthers(_, _, _, _)
CartReservedByOthers(ingredients, crt, productId, itemId) ==
    IF crt = << >> THEN 0
    ELSE LET cartItem        == Head(crt)
             cartIngredients == IngredientsOf(ingredients, cartItem.product)
             k               == FindIngredientIndex(cartIngredients, itemId)
             own             == IF cartItem.product = productId THEN 0
                                ELSE IF k # 0
                                     THEN cartIngredients[k].qty * cartItem.quantity
                                     ELSE 0
         IN own + CartReservedByOthers(ingredients, Tail(crt), productId, itemId)

\* lines 110-134, the for loop from recipe line i on
RECURSIVE CanSellFrom(_, _, _, _, _, _)
CanSellFrom(ingredients, items, crt, productId, qty, i) ==
    LET lines == IngredientsOf(ingredients, productId)
    IN IF i > Len(lines) THEN TRUE
       ELSE LET ing == lines[i]
                k   == FindItemIndex(items, ing.item_id)
            IN IF k = 0 THEN FALSE
               ELSE LET inventoryStock == getInventoryInIngredientUnit(items[k])
                        cartQty     == CartReservedByOthers(ingredients, crt,
                                                            productId, ing.item_id)
                        requiredQty == (ing.qty * qty) + cartQty
                    IN IF inventoryStock < requiredQty THEN FALSE
                       ELSE CanSellFrom(ingredients, items, crt, productId, qty, i + 1)

\* CanSell without the early return of line 112
CanSellWithoutRecipeCheck(ingredients, items, crt, productId, qty) ==
    CanSellFrom(ingredients, items, crt, productId, qty, 1)

\* lines 110-134
CanSell(ingredients, items, crt, productId, qty) ==
    IF Len(IngredientsOf(ingredients, productId)) = 0 THEN FALSE
    ELSE CanSellFrom(ingredients, items, crt, productId, qty, 1)

\* lines 141-164, the for loop from recipe line i on; maxQty is
\* [inf |-> TRUE] for Infinity, [inf |-> FALSE, v |-> n] for the number n
RECURSIVE MaxQuantityFrom(_, _, _, _, _, _)
MaxQuantityFrom(ingredients, items, crt, productId, maxQty, i) ==
    LET lines == IngredientsOf(ingredients, productId)
    IN IF i > Len(lines) THEN maxQty
       ELSE LET ing == lines[i]
                k   == FindItemIndex(items, ing.item_id)
            IN IF k = 0 \/ ing.qty = 0 THEN [inf |-> FALSE, v |-> 0]
               ELSE LET inventoryStock == getInventoryInIngredientUnit(items[k])
                        cartReserved   == CartReservedByOthers(ingredients, crt,
                                                               productId, ing.item_id)
                        availableStock == inventoryStock - cartReserved
                        possibleQty    == availableStock \div ing.qty
                        next == IF maxQty.inf THEN possibleQty
                                ELSE Min(maxQty.v, possibleQty)
                    IN MaxQuantityFrom(ingredients, items, crt, productId,
                                       [inf |-> FALSE, v |-> next], i + 1)

\* lines 137-166
MaxQuantity(ingredients, items, crt, productId) ==
    IF Len(IngredientsOf(ingredients, productId)) = 0 THEN 0
    ELSE LET maxQty == MaxQuantityFrom(ingredients, items, crt, productId,
                                       [inf |-> TRUE, v |-> 0], 1)
         IN IF maxQty.inf THEN 0 ELSE maxQty.v

\* lines 169-175, reduce from recipe line i on
RECURSIVE ProductCostFrom(_, _, _, _)
ProductCostFrom(ingredients, items, productId, i) ==
    LET lines == IngredientsOf(ingredients, productId)
    IN IF i > Len(lines) THEN 0
       ELSE LET ing == lines[i]
                k   == FindItemIndex(items, ing.item_id)
                c   == IF k # 0 THEN (items[k].cost * ing.qty) \div Scale ELSE 0
            IN c + ProductCostFrom(ingredients, items, productId, i + 1)

\* the component's closures over the tab's current state
canSellProduct(t, productId, qty) ==
    CanSell(productIngredients[t], inventoryItems[t], cart[t], productId, qty)

getMaxQuantity(t, productId) ==
    MaxQuantity(productIngredients[t], inventoryItems[t], cart[t], productId)

calculateProductCost(t, productId) ==
    ProductCostFrom(productIngredients[t], inventoryItems[t], productId, 1)

\* cart.findIndex(item => item.product.id === productId): 0 when absent
CartIndex(crt, productId) ==
    IF \E i \in 1..Len(crt) : crt[i].product = productId
    THEN CHOOSE i \in 1..Len(crt) :
            /\ crt[i].product = productId
            /\ \A j \in 1..(i - 1) : crt[j].product # productId
    ELSE 0

-----------------------------------------------------------------------------
(* fetchData *)

Idle == [pc |-> "idle"]

\* supabase.from('products').select('*').order('name') served from the table
InventoryRows(table) ==
    [i \in 1..Len(ItemIds) |->
        [id        |-> ItemIds[i],
         qty       |-> table[ItemIds[i]],
         cost      |-> ItemCost[ItemIds[i]],
         unit_type |-> ItemUnitType[ItemIds[i]]]]

\* lines 75-84: ingredientsRes.data.reduce(...) groups the rows by product_id
GroupIngredients(rows) ==
    LET keys == {rows[i].product_id : i \in 1..Len(rows)}
    IN [p \in keys |-> SelectSeq(rows, LAMBDA ing : ing.product_id = p)]

\* the remote service answers the selects of one fetchData call (lines 62-69);
\* the select on products may come back with data = null (an error result)
FetchServed(t) ==
    /\ [phase |-> "sent"] \in fetches[t]
    /\ \E inventoryOk \in BOOLEAN :
          fetches' = [fetches EXCEPT ![t] =
              (@ \ {[phase |-> "sent"]}) \cup
              {[phase       |-> "received",
                inventoryOk |-> inventoryOk,
                inventory   |-> IF inventoryOk THEN InventoryRows(dbProducts)
                                ELSE << >>,
                ingredients |-> dbIngredients,
                dineIn      |-> dbDineInSetting]}]
    /\ UNCHANGED << dbProducts, dbSales, dbDineInSetting, uuidCount, checkoutCap,
                    inventoryPage, dbIngredients,
                    page, products, loading,
                    inventoryItems, productIngredients, dineInEnabled, cart,
                    selectedPaymentMethod, selectedCustomerType,
                    selectedDineInTakeout, isCheckingOut, checkout,
                    recentSales >>

\* lines 71-96: Promise.all resolved, the setters run
FetchReturns(t) ==
    \E r \in fetches[t] :
        /\ r.phase = "received"
        /\ fetches' = [fetches EXCEPT ![t] = @ \ {r}]
        /\ inventoryItems' = [inventoryItems EXCEPT ![t] =
                                 IF r.inventoryOk THEN r.inventory ELSE @]
        /\ productIngredients' = [productIngredients EXCEPT ![t] =
                                     GroupIngredients(r.ingredients)]
        /\ dineInEnabled' = [dineInEnabled EXCEPT ![t] = r.dineIn]
        /\ loading' = [loading EXCEPT ![t] = FALSE]
        /\ UNCHANGED << dbProducts, dbSales, dbDineInSetting, uuidCount, checkoutCap,
                    inventoryPage, dbIngredients,
                        page, products, cart,
                        selectedPaymentMethod, selectedCustomerType,
                        selectedDineInTakeout, isCheckingOut, checkout,
                        recentSales >>

-----------------------------------------------------------------------------
(* Cart operations.  The page is rendered, and its handlers can run, once  *)
(* loading is false (lines 364-370).  selectedProduct and quantity, the    *)
(* state of the product modal, are the inputs of addToCart; the arguments  *)
(* of the other handlers are those the page passes (lines 416-433).  The   *)
(* toast calls change no state of the page; the message of a refusal is    *)
(* kept as the value of AddToCartRejection / UpdateRejection /             *)
(* CheckoutRejection, "" when the handler goes through.                    *)

\* AddToCartRejection with >= in place of > at line 201: the last unit the
\* stock allows is refused
AddToCartRejectionOffByOne(t, selectedProduct, quantity) ==
    IF quantity <= 0 THEN "Please enter a valid quantity"
    ELSE IF quantity >= getMaxQuantity(t, selectedProduct)
    THEN "Not enough ingredients in stock"
    ELSE IF Len(IngredientsOf(productIngredients[t], selectedProduct)) = 0
    THEN "This product has no ingredients configured"
    ELSE ""

\* AddToCartRejection with < in place of <= at line 195: a quantity of 0 passes
AddToCartRejectionAcceptsZero(t, selectedProduct, quantity) ==
    IF quantity < 0 THEN "Please enter a valid quantity"
    ELSE IF quantity > getMaxQuantity(t, selectedProduct)
    THEN "Not enough ingredients in stock"
    ELSE IF Len(IngredientsOf(productIngredients[t], selectedProduct)) = 0
    THEN "This product has no ingredients configured"
    ELSE ""

\* lines 194-210: the toast.error of the check that returns early
AddToCartRejection(t, selectedProduct, quantity) ==
    IF quantity <= 0 THEN "Please enter a valid quantity"
    ELSE IF quantity > getMaxQuantity(t, selectedProduct)
    THEN "Not enough ingredients in stock"
    ELSE IF Len(IngredientsOf(productIngredients[t], selectedProduct)) = 0
    THEN "This product has no ingredients configured"
    ELSE ""

\* AddToCartResult without the branch of lines 214-219: a line is appended
\* although the product has one
AddToCartResultAppends(t, selectedProduct, quantity) ==
    Append(cart[t], [product     |-> selectedProduct,
                     quantity    |-> quantity,
                     ingredients |-> IngredientsOf(productIngredients[t],
                                                   selectedProduct)])

\* lines 212-225: the cart addToCart sets
AddToCartResult(t, selectedProduct, quantity) ==
    LET existingIndex == CartIndex(cart[t], selectedProduct)
    IN IF existingIndex > 0
       THEN [cart[t] EXCEPT ![existingIndex].quantity = quantity]
       ELSE Append(cart[t], [product     |-> selectedProduct,
                             quantity    |-> quantity,
                             ingredients |-> IngredientsOf(productIngredients[t],
                                                           selectedProduct)])

\* lines 194-227: the cart addToCart leaves behind for a product
CartAfterAdd(t, selectedProduct, quantity) ==
    IF AddToCartRejection(t, selectedProduct, quantity) # ""
    THEN cart[t]
    ELSE AddToCartResult(t, selectedProduct, quantity)

\* lines 193-228
addToCart(t, selectedProduct, quantity) ==
    /\ ~loading[t]
    /\ cart' = [cart EXCEPT ![t] =
           IF selectedProduct = Null THEN @
           ELSE CartAfterAdd(t, selectedProduct, quantity)]
    /\ UNCHANGED << dbProducts, dbSales, dbDineInSetting, uuidCount, checkoutCap,
                    inventoryPage, dbIngredients,
                    page, products, loading,
                    inventoryItems, productIngredients, dineInEnabled,
                    selectedPaymentMethod, selectedCustomerType,
                    selectedDineInTakeout, isCheckingOut, checkout, fetches,
                    recentSales >>

\* line 231: cart.filter(item => item.product.id !== productId)
RemoveLine(crt, productId) == SelectSeq(crt, LAMBDA item : item.product # productId)

\* removeFromCart on a cart that the tabs share: the line goes from every tab
removeFromCartOfEveryTab(t, productId) ==
    /\ ~loading[t]
    /\ cart' = [u \in DOMAIN cart |-> RemoveLine(cart[u], productId)]
    /\ UNCHANGED << dbProducts, dbSales, dbDineInSetting, uuidCount, checkoutCap,
                    inventoryPage, dbIngredients,
                    page, products, loading,
                    inventoryItems, productIngredients, dineInEnabled,
                    selectedPaymentMethod, selectedCustomerType,
                    selectedDineInTakeout, isCheckingOut, checkout, fetches,
                    recentSales >>

\* lines 230-233
removeFromCart(t, productId) ==
    /\ ~loading[t]
    /\ cart' = [cart EXCEPT ![t] = RemoveLine(@, productId)]
    /\ UNCHANGED << dbProducts, dbSales, dbDineInSetting, uuidCount, checkoutCap,
                    inventoryPage, dbIngredients,
                    page, products, loading,
                    inventoryItems, productIngredients, dineInEnabled,
                    selectedPaymentMethod, selectedCustomerType,
                    selectedDineInTakeout, isCheckingOut, checkout, fetches,
                    recentSales >>

\* UpdateRejection without the check of line 241
UpdateNeverRejected(t, productId, newQuantity) == ""

\* lines 241-245: the toast.error of the check that returns early
UpdateRejection(t, productId, newQuantity) ==
    IF newQuantity > getMaxQuantity(t, productId)
    THEN "Not enough ingredients in stock"
    ELSE ""

\* lines 247-251: cart.map(...)
SetLineQuantity(crt, productId, newQuantity) ==
    [i \in 1..Len(crt) |->
        IF crt[i].product = productId
        THEN [crt[i] EXCEPT !.quantity = newQuantity]
        ELSE crt[i]]

\* lines 236-251: the cart updateCartQuantity leaves behind
CartAfterUpdate(t, productId, newQuantity) ==
    IF newQuantity <= 0 THEN RemoveLine(cart[t], productId)
    ELSE IF UpdateRejection(t, productId, newQuantity) # "" THEN cart[t]
    ELSE SetLineQuantity(cart[t], productId, newQuantity)

\* lines 235-252
updateCartQuantity(t, productId, newQuantity) ==
    /\ ~loading[t]
    /\ cart' = [cart EXCEPT ![t] = CartAfterUpdate(t, productId, newQuantity)]
    /\ UNCHANGED << dbProducts, dbSales, dbDineInSetting, uuidCount, checkoutCap,
                    inventoryPage, dbIngredients,
                    page, products, loading,
                    inventoryItems, productIngredients, dineInEnabled,
                    selectedPaymentMethod, selectedCustomerType,
                    selectedDineInTakeout, isCheckingOut, checkout, fetches,
                    recentSales >>

\* ClearCartState without line 258: the dine-in/takeout choice is kept
ClearCartKeepsDineInTakeout(t) ==
    /\ cart' = [cart EXCEPT ![t] = << >>]
    /\ selectedPaymentMethod' = [selectedPaymentMethod EXCEPT ![t] = ""]
    /\ selectedCustomerType' = [selectedCustomerType EXCEPT ![t] = ""]
    /\ UNCHANGED selectedDineInTakeout

\* lines 255-258: the four setters of clearCart
ClearCartState(t) ==
    /\ cart' = [cart EXCEPT ![t] = << >>]
    /\ selectedPaymentMethod' = [selectedPaymentMethod EXCEPT ![t] = ""]
    /\ selectedCustomerType' = [selectedCustomerType EXCEPT ![t] = ""]
    /\ selectedDineInTakeout' = [selectedDineInTakeout EXCEPT ![t] = Null]

\* lines 254-259, from the Clear button (line 393)
clearCart(t) ==
    /\ ~loading[t]
    /\ ClearCartState(t)
    /\ UNCHANGED << dbProducts, dbSales, dbDineInSetting, uuidCount, checkoutCap,
                    inventoryPage, dbIngredients,
                    page, products,
                    loading, inventoryItems, productIngredients, dineInEnabled,
                    isCheckingOut, checkout, fetches, recentSales >>

\* line 482: onClick={() => setSelectedPaymentMethod(pm.name)}
SelectPaymentMethod(t, name) ==
    /\ ~loading[t]
    /\ selectedPaymentMethod' = [selectedPaymentMethod EXCEPT ![t] = name]
    /\ UNCHANGED << dbProducts, dbSales, dbDineInSetting, uuidCount, checkoutCap,
                    inventoryPage, dbIngredients,
                    page, products, loading,
                    inventoryItems, productIngredients, dineInEnabled, cart,
                    selectedCustomerType, selectedDineInTakeout, isCheckingOut,
                    checkout, fetches, recentSales >>

\* line 457: onClick={() => setSelectedCustomerType(ct.name)}
SelectCustomerType(t, name) ==
    /\ ~loading[t]
    /\ selectedCustomerType' = [selectedCustomerType EXCEPT ![t] = name]
    /\ UNCHANGED << dbProducts, dbSales, dbDineInSetting, uuidCount, checkoutCap,
                    inventoryPage, dbIngredients,
                    page, products, loading,
                    inventoryItems, productIngredients, dineInEnabled, cart,
                    selectedPaymentMethod, selectedDineInTakeout, isCheckingOut,
                    checkout, fetches, recentSales >>

\* lines 495-515: the two buttons exist when dineInEnabled
SelectDineInTakeout(t, option) ==
    /\ ~loading[t]
    /\ dineInEnabled[t]
    /\ selectedDineInTakeout' = [selectedDineInTakeout EXCEPT ![t] = option]
    /\ UNCHANGED << dbProducts, dbSales, dbDineInSetting, uuidCount, checkoutCap,
                    inventoryPage, dbIngredients,
                    page, products, loading,
                    inventoryItems, productIngredients, dineInEnabled, cart,
                    selectedPaymentMethod, selectedCustomerType, isCheckingOut,
                    checkout, fetches, recentSales >>

-----------------------------------------------------------------------------
(* handleCheckout, lines 261-362 *)

\* AddDeduction with = in place of +=: a later cart line's requirement
\* replaces the one recorded for the ingredient
AddDeductionOverwrites(deductions, itemId, deduction) ==
    IF \E k \in 1..Len(deductions) : deductions[k].item_id = itemId
    THEN [k \in 1..Len(deductions) |->
             IF deductions[k].item_id = itemId
             THEN [deductions[k] EXCEPT !.deduction = deduction]
             ELSE deductions[k]]
    ELSE Append(deductions, [item_id |-> itemId, deduction |-> deduction])

\* line 299: ingredientDeductions[itemId] = (ingredientDeductions[itemId] || 0) + deduction;
\* the object is kept as the sequence of its entries in insertion order
AddDeduction(deductions, itemId, deduction) ==
    IF \E k \in 1..Len(deductions) : deductions[k].item_id = itemId
    THEN [k \in 1..Len(deductions) |->
             IF deductions[k].item_id = itemId
             THEN [deductions[k] EXCEPT !.deduction = @ + deduction]
             ELSE deductions[k]]
    ELSE Append(deductions, [item_id |-> itemId, deduction |-> deduction])

\* lines 297-300: the inner loop over one cart line's recipe lines, from line i on
RECURSIVE DeductRecipeLines(_, _, _, _)
DeductRecipeLines(deductions, lines, quantity, i) ==
    IF i > Len(lines) THEN deductions
    ELSE DeductRecipeLines(
             AddDeduction(deductions, lines[i].item_id, lines[i].qty * quantity),
             lines, quantity, i + 1)

\* lines 294-301: the outer loop over the cart
RECURSIVE IngredientDeductions(_, _, _)
IngredientDeductions(deductions, ingredients, crt) ==
    IF crt = << >> THEN deductions
    ELSE IngredientDeductions(
             DeductRecipeLines(deductions,
                               IngredientsOf(ingredients, Head(crt).product),
                               Head(crt).quantity, 1),
             ingredients, Tail(crt))

\* SaleRecords with a transaction id drawn once for the page instead of
\* once per call of handleCheckout (line 291)
SaleRecordsOneIdPerPage(t, transactionId) ==
    [i \in 1..Len(cart[t]) |->
        [transaction_id  |-> 1,
         product_id      |-> cart[t][i].product,
         qty             |-> cart[t][i].quantity,
         unit_type       |-> "quantity",
         cost            |-> calculateProductCost(t, cart[t][i].product),
         selling_price   |-> SellingPrice[cart[t][i].product],
         total           |-> cart[t][i].quantity * SellingPrice[cart[t][i].product],
         payment_method  |-> selectedPaymentMethod[t],
         customer_type   |-> selectedCustomerType[t],
         dine_in_takeout |-> IF dineInEnabled[t] THEN selectedDineInTakeout[t]
                             ELSE Null]]

\* SaleRecords with the cost of a line multiplied by the line's quantity
SaleRecordsCostTimesQuantity(t, transactionId) ==
    [i \in 1..Len(cart[t]) |->
        [transaction_id  |-> transactionId,
         product_id      |-> cart[t][i].product,
         qty             |-> cart[t][i].quantity,
         unit_type       |-> "quantity",
         cost            |-> calculateProductCost(t, cart[t][i].product)
                                 * cart[t][i].quantity,
         selling_price   |-> SellingPrice[cart[t][i].product],
         total           |-> cart[t][i].quantity * SellingPrice[cart[t][i].product],
         payment_method  |-> selectedPaymentMethod[t],
         customer_type   |-> selectedCustomerType[t],
         dine_in_takeout |-> IF dineInEnabled[t] THEN selectedDineInTakeout[t]
                             ELSE Null]]

\* lines 304-319: one record per cart line (product_name follows product_id)
SaleRecords(t, transactionId) ==
    [i \in 1..Len(cart[t]) |->
        [transaction_id  |-> transactionId,
         product_id      |-> cart[t][i].product,
         qty             |-> cart[t][i].quantity,
         unit_type       |-> "quantity",
         cost            |-> calculateProductCost(t, cart[t][i].product),
         selling_price   |-> SellingPrice[cart[t][i].product],
         total           |-> cart[t][i].quantity * SellingPrice[cart[t][i].product],
         payment_method  |-> selectedPaymentMethod[t],
         customer_type   |-> selectedCustomerType[t],
         dine_in_takeout |-> IF dineInEnabled[t] THEN selectedDineInTakeout[t]
                             ELSE Null]]

\* lines 280-285: index of the first cart line canSellProduct refuses, 0 if none
FirstUnsellable(t) ==
    IF \E i \in 1..Len(cart[t]) :
           ~canSellProduct(t, cart[t][i].product, cart[t][i].quantity)
    THEN CHOOSE i \in 1..Len(cart[t]) :
            /\ ~canSellProduct(t, cart[t][i].product, cart[t][i].quantity)
            /\ \A j \in 1..(i - 1) :
                   canSellProduct(t, cart[t][j].product, cart[t][j].quantity)
    ELSE 0

\* CheckoutRejection without the check of lines 266-269
CheckoutRejectionSkipsPaymentMethod(t) ==
    IF Len(cart[t]) = 0 THEN "Cart is empty"
    ELSE IF selectedCustomerType[t] = "" THEN "Please select a customer type"
    ELSE IF dineInEnabled[t] /\ selectedDineInTakeout[t] = Null
    THEN "Please select Dine In or Takeout"
    ELSE IF FirstUnsellable(t) # 0 THEN "Not enough ingredients"
    ELSE ""

\* lines 262-285: the toast.error of the validation that returns early
CheckoutRejection(t) ==
    IF Len(cart[t]) = 0 THEN "Cart is empty"
    ELSE IF selectedPaymentMethod[t] = "" THEN "Please select a payment method"
    ELSE IF selectedCustomerType[t] = "" THEN "Please select a customer type"
    ELSE IF dineInEnabled[t] /\ selectedDineInTakeout[t] = Null
    THEN "Please select Dine In or Takeout"
    ELSE IF FirstUnsellable(t) # 0 THEN "Not enough ingredients"
    ELSE ""

\* lines 287-326 up to the await of the insert: what the rest of the function
\* reads after the await is what this render's closure holds
CheckoutClosure(t, transactionId) ==
    [pc                   |-> "insert",
     cart                 |-> cart[t],
     inventoryItems       |-> inventoryItems[t],
     transactionId        |-> transactionId,
     ingredientDeductions |->
         IngredientDeductions(<< >>, productIngredients[t], cart[t]),
     saleRecords          |-> SaleRecords(t, transactionId)]

\* handleCheckout with a Complete Purchase button that stays enabled while a
\* checkout is in flight
handleCheckoutNotDisabled(t) ==
    /\ ~loading[t]
    /\ IF CheckoutRejection(t) # ""
       THEN UNCHANGED << uuidCount, isCheckingOut, checkout >>
       ELSE /\ uuidCount < checkoutCap
            /\ uuidCount' = uuidCount + 1
            /\ isCheckingOut' = [isCheckingOut EXCEPT ![t] = TRUE]
            /\ checkout' = [checkout EXCEPT ![t] = CheckoutClosure(t, uuidCount + 1)]
    /\ UNCHANGED << dbProducts, dbSales, dbDineInSetting, checkoutCap,
                    inventoryPage, dbIngredients,
                    page, products, loading,
                    inventoryItems, productIngredients, dineInEnabled, cart,
                    selectedPaymentMethod, selectedCustomerType,
                    selectedDineInTakeout, fetches, recentSales >>

\* lines 261-326 up to the await of the insert.  The Complete Purchase button
\* is disabled while isCheckingOut (line 537).
handleCheckout(t) ==
    /\ ~loading[t]
    /\ ~isCheckingOut[t]
    /\ IF CheckoutRejection(t) # ""
       THEN UNCHANGED << uuidCount, isCheckingOut, checkout >>
       ELSE /\ uuidCount < checkoutCap
            /\ uuidCount' = uuidCount + 1
            /\ isCheckingOut' = [isCheckingOut EXCEPT ![t] = TRUE]
            /\ checkout' = [checkout EXCEPT ![t] = CheckoutClosure(t, uuidCount + 1)]
    /\ UNCHANGED << dbProducts, dbSales, dbDineInSetting, checkoutCap,
                    inventoryPage, dbIngredients,
                    page, products, loading,
                    inventoryItems, productIngredients, dineInEnabled, cart,
                    selectedPaymentMethod, selectedCustomerType,
                    selectedDineInTakeout, fetches, recentSales >>

\* lines 329-338: one update per entry of ingredientDeductions whose item is
\* in the closure's inventoryItems; qty is the absolute value to store
InventoryUpdates(deductions, items) ==
    LET update(entry) ==
            LET item == items[FindItemIndex(items, entry.item_id)]
                deductionInStorageUnit ==
                    IF item.unit_type = "weight"
                    THEN entry.deduction \div GramsPerKg
                    ELSE entry.deduction
            IN [id |-> entry.item_id, qty |-> item.qty - deductionInStorageUnit]
        found == SelectSeq(deductions,
                           LAMBDA entry : FindItemIndex(items, entry.item_id) # 0)
    IN [i \in 1..Len(found) |-> update(found[i])]

\* CheckoutFails that clears the cart as the success path does
CheckoutFailsClearsCart(t) ==
    /\ isCheckingOut' = [isCheckingOut EXCEPT ![t] = FALSE]
    /\ checkout' = [checkout EXCEPT ![t] = Idle]
    /\ ClearCartState(t)
    /\ UNCHANGED << fetches, recentSales >>

\* CheckoutFails without the finally block (lines 359-361): isCheckingOut
\* stays true after a failure
CheckoutFailsWithoutFinally(t) ==
    /\ checkout' = [checkout EXCEPT ![t] = Idle]
    /\ UNCHANGED << isCheckingOut, cart, selectedPaymentMethod,
                    selectedCustomerType, selectedDineInTakeout, fetches,
                    recentSales >>

\* CheckoutFails that refreshes as the success path does (fetchData, line 355)
CheckoutFailsStartsRefresh(t) ==
    /\ isCheckingOut' = [isCheckingOut EXCEPT ![t] = FALSE]
    /\ checkout' = [checkout EXCEPT ![t] = Idle]
    /\ fetches' = [fetches EXCEPT ![t] = @ \cup {[phase |-> "sent"]}]
    /\ UNCHANGED << cart, selectedPaymentMethod, selectedCustomerType,
                    selectedDineInTakeout, recentSales >>

\* lines 356-361: catch and finally
CheckoutFails(t) ==
    /\ isCheckingOut' = [isCheckingOut EXCEPT ![t] = FALSE]
    /\ checkout' = [checkout EXCEPT ![t] = Idle]
    /\ UNCHANGED << cart, selectedPaymentMethod, selectedCustomerType,
                    selectedDineInTakeout, fetches, recentSales >>

\* CheckoutSucceeds without the call of fetchData at line 355
CheckoutSucceedsWithoutRefresh(t, saleData) ==
    /\ recentSales' = [recentSales EXCEPT ![t] =
                          IF Len(saleData) > 0 THEN Append(@, saleData[1]) ELSE @]
    /\ ClearCartState(t)
    /\ UNCHANGED fetches
    /\ isCheckingOut' = [isCheckingOut EXCEPT ![t] = FALSE]
    /\ checkout' = [checkout EXCEPT ![t] = Idle]

\* CheckoutSucceeds with a clearCart that removes the lines that were sold
\* only: a line added or changed while the checkout was in flight stays
CheckoutSucceedsKeepsNewLines(t, saleData) ==
    /\ recentSales' = [recentSales EXCEPT ![t] =
                          IF Len(saleData) > 0 THEN Append(@, saleData[1]) ELSE @]
    /\ cart' = [cart EXCEPT ![t] =
                   SelectSeq(@, LAMBDA line :
                       \A i \in 1..Len(checkout[t].cart) : checkout[t].cart[i] # line)]
    /\ selectedPaymentMethod' = [selectedPaymentMethod EXCEPT ![t] = ""]
    /\ selectedCustomerType' = [selectedCustomerType EXCEPT ![t] = ""]
    /\ selectedDineInTakeout' = [selectedDineInTakeout EXCEPT ![t] = Null]
    /\ fetches' = [fetches EXCEPT ![t] = @ \cup {[phase |-> "sent"]}]
    /\ isCheckingOut' = [isCheckingOut EXCEPT ![t] = FALSE]
    /\ checkout' = [checkout EXCEPT ![t] = Idle]

\* lines 346-355 and 359-361: addRecentSale, clearCart, fetchData, finally
CheckoutSucceeds(t, saleData) ==
    /\ recentSales' = [recentSales EXCEPT ![t] =
                          IF Len(saleData) > 0 THEN Append(@, saleData[1]) ELSE @]
    /\ ClearCartState(t)
    /\ fetches' = [fetches EXCEPT ![t] = @ \cup {[phase |-> "sent"]}]
    /\ isCheckingOut' = [isCheckingOut EXCEPT ![t] = FALSE]
    /\ checkout' = [checkout EXCEPT ![t] = Idle]

\* the rows table sales stores for the records of one insert (numeric(10,2) columns)
StoredSaleRows(records) ==
    [i \in 1..Len(records) |->
        [records[i] EXCEPT !.cost = RoundDecimal2(@), !.total = RoundDecimal2(@)]]

\* SaleInsertReturns without line 326: after an insert that failed the
\* updates are issued all the same
SaleInsertReturnsIgnoresError(t) ==
    /\ checkout[t].pc = "insert"
    /\ \E ok \in BOOLEAN :
          LET saleData == IF ok THEN StoredSaleRows(checkout[t].saleRecords)
                          ELSE << >>
              updates  == InventoryUpdates(checkout[t].ingredientDeductions,
                                           checkout[t].inventoryItems)
          IN /\ dbSales' = dbSales \o saleData
             /\ UNCHANGED dbProducts
             /\ IF Len(updates) = 0
                THEN CheckoutSucceeds(t, saleData)
                ELSE /\ checkout' = [checkout EXCEPT ![t] =
                            [pc                   |-> "updates",
                             cart                 |-> checkout[t].cart,
                             inventoryItems       |-> checkout[t].inventoryItems,
                             transactionId        |-> checkout[t].transactionId,
                             ingredientDeductions |->
                                 checkout[t].ingredientDeductions,
                             saleData             |-> saleData,
                             inventoryUpdates     |-> updates,
                             pending              |-> 1..Len(updates),
                             inventoryErrors      |-> 0]]
                     /\ UNCHANGED << cart, selectedPaymentMethod,
                                     selectedCustomerType,
                                     selectedDineInTakeout, fetches,
                                     recentSales, isCheckingOut >>
    /\ UNCHANGED << dbDineInSetting, uuidCount, checkoutCap,
                    inventoryPage, dbIngredients,
                    page, products, loading, inventoryItems,
                    productIngredients, dineInEnabled >>

\* lines 321-340: the insert returns; on success the updates are issued together
SaleInsertReturns(t) ==
    /\ checkout[t].pc = "insert"
    /\ \E ok \in BOOLEAN :
          IF ~ok
          THEN /\ CheckoutFails(t)
               /\ UNCHANGED << dbSales, dbProducts >>
          ELSE LET saleData == StoredSaleRows(checkout[t].saleRecords)
                   updates  == InventoryUpdates(checkout[t].ingredientDeductions,
                                                checkout[t].inventoryItems)
               IN /\ dbSales' = dbSales \o saleData
                  /\ UNCHANGED dbProducts
                  /\ IF Len(updates) = 0
                     THEN CheckoutSucceeds(t, saleData)
                     ELSE /\ checkout' = [checkout EXCEPT ![t] =
                                 [pc                   |-> "updates",
                                  cart                 |-> checkout[t].cart,
                                  inventoryItems       |-> checkout[t].inventoryItems,
                                  transactionId        |-> checkout[t].transactionId,
                                  ingredientDeductions |->
                                      checkout[t].ingredientDeductions,
                                  saleData             |-> saleData,
                                  inventoryUpdates     |-> updates,
                                  pending              |-> 1..Len(updates),
                                  inventoryErrors      |-> 0]]
                          /\ UNCHANGED << cart, selectedPaymentMethod,
                                          selectedCustomerType,
                                          selectedDineInTakeout, fetches,
                                          recentSales, isCheckingOut >>
    /\ UNCHANGED << dbDineInSetting, uuidCount, checkoutCap,
                    inventoryPage, dbIngredients,
                    page, products, loading, inventoryItems,
                    productIngredients, dineInEnabled >>

\* InventoryUpdateReturns with an update that takes the deduction off the
\* stored quantity instead of writing the value computed from the snapshot
InventoryUpdateReturnsDecrements(t) ==
    /\ checkout[t].pc = "updates"
    /\ \E i \in checkout[t].pending, ok \in BOOLEAN :
          LET u      == checkout[t].inventoryUpdates[i]
              items  == checkout[t].inventoryItems
              taken  == items[FindItemIndex(items, u.id)].qty - u.qty
              left   == checkout[t].pending \ {i}
              errors == checkout[t].inventoryErrors + (IF ok THEN 0 ELSE 1)
          IN /\ dbProducts' = IF ok
                              THEN [dbProducts EXCEPT ![u.id] = RoundDecimal2(@ - taken)]
                              ELSE dbProducts
             /\ checkout' = [checkout EXCEPT ![t].pending = left,
                                             ![t].inventoryErrors = errors]
    /\ UNCHANGED << cart, selectedPaymentMethod, selectedCustomerType,
                    selectedDineInTakeout, fetches, recentSales, isCheckingOut >>
    /\ UNCHANGED << dbSales, dbDineInSetting, uuidCount, checkoutCap,
                    inventoryPage, dbIngredients,
                    page, products, loading, inventoryItems,
                    productIngredients, dineInEnabled >>

\* lines 334-340: one of the updates issued together is applied (or refused) by
\* the service and its result is kept for Promise.all
InventoryUpdateReturns(t) ==
    /\ checkout[t].pc = "updates"
    /\ \E i \in checkout[t].pending, ok \in BOOLEAN :
          LET u      == checkout[t].inventoryUpdates[i]
              left   == checkout[t].pending \ {i}
              errors == checkout[t].inventoryErrors + (IF ok THEN 0 ELSE 1)
          IN /\ dbProducts' = IF ok
                              THEN [dbProducts EXCEPT ![u.id] = RoundDecimal2(u.qty)]
                              ELSE dbProducts
             /\ checkout' = [checkout EXCEPT ![t].pending = left,
                                             ![t].inventoryErrors = errors]
    /\ UNCHANGED << cart, selectedPaymentMethod, selectedCustomerType,
                    selectedDineInTakeout, fetches, recentSales, isCheckingOut >>
    /\ UNCHANGED << dbSales, dbDineInSetting, uuidCount, checkoutCap,
                    inventoryPage, dbIngredients,
                    page, products, loading, inventoryItems,
                    productIngredients, dineInEnabled >>

\* lines 340-361: every result is in, Promise.all resolves and the function
\* runs to its end
InventoryUpdatesSettle(t) ==
    /\ checkout[t].pc = "updates"
    /\ checkout[t].pending = {}
    /\ IF checkout[t].inventoryErrors > 0
       THEN CheckoutFails(t)
       ELSE CheckoutSucceeds(t, checkout[t].saleData)
    /\ UNCHANGED << dbProducts, dbSales, dbDineInSetting, uuidCount, checkoutCap,
                    inventoryPage, dbIngredients,
                    page, products, loading, inventoryItems,
                    productIngredients, dineInEnabled >>

-----------------------------------------------------------------------------
(* The simple-product SalesPage, lines 733-1283: it sells the rows of table *)
(* products directly.  A cart line is {product, quantity} with product the  *)
(* row object captured when the line was added; quantities are decimals    *)
(* (times Scale).  clearCart (862-867), the selection setters (1042-1098), *)
(* and the end of handleCheckout (931-953) are the code of the recipe page *)
(* and share its definitions.                                               *)

\* line 768: supabase.from('products').select('*').gt('qty', 0).order('name')
ProductRows(table) ==
    SelectSeq([i \in 1..Len(ItemIds) |->
                  [id            |-> ItemIds[i],
                   qty           |-> table[ItemIds[i]],
                   cost          |-> ItemCost[ItemIds[i]],
                   selling_price |-> ItemSellingPrice[ItemIds[i]],
                   unit_type     |-> ItemUnitType[ItemIds[i]]]],
              LAMBDA row : row.qty > 0)

\* the remote service answers the selects of one fetchData call (lines 767-772)
FetchServedSimple(t) ==
    /\ [phase |-> "sent"] \in fetches[t]
    /\ \E productsOk \in BOOLEAN :
          fetches' = [fetches EXCEPT ![t] =
              (@ \ {[phase |-> "sent"]}) \cup
              {[phase      |-> "received",
                productsOk |-> productsOk,
                products   |-> IF productsOk THEN ProductRows(dbProducts) ELSE << >>,
                dineIn     |-> dbDineInSetting]}]
    /\ UNCHANGED << dbProducts, dbSales, dbDineInSetting, uuidCount, checkoutCap,
                    inventoryPage, dbIngredients,
                    page, products, loading, inventoryItems, productIngredients,
                    dineInEnabled, cart, selectedPaymentMethod,
                    selectedCustomerType, selectedDineInTakeout, isCheckingOut,
                    checkout, recentSales >>

\* lines 774-785: Promise.all resolved, the setters run
FetchReturnsSimple(t) ==
    \E r \in fetches[t] :
        /\ r.phase = "received"
        /\ fetches' = [fetches EXCEPT ![t] = @ \ {r}]
        /\ products' = [products EXCEPT ![t] =
                           IF r.productsOk THEN r.products ELSE @]
        /\ dineInEnabled' = [dineInEnabled EXCEPT ![t] = r.dineIn]
        /\ loading' = [loading EXCEPT ![t] = FALSE]
        /\ UNCHANGED << dbProducts, dbSales, dbDineInSetting, uuidCount, checkoutCap,
                    inventoryPage, dbIngredients,
                        page, inventoryItems, productIngredients, cart,
                        selectedPaymentMethod, selectedCustomerType,
                        selectedDineInTakeout, isCheckingOut, checkout,
                        recentSales >>

\* selectedProduct = null (line 762), as a value comparable with the rows
NullProduct == [id |-> Null]

\* cart.findIndex(item => item.product.id === productId): 0 when absent
CartIndexSimple(crt, productId) ==
    IF \E i \in 1..Len(crt) : crt[i].product.id = productId
    THEN CHOOSE i \in 1..Len(crt) :
            /\ crt[i].product.id = productId
            /\ \A j \in 1..(i - 1) : crt[j].product.id # productId
    ELSE 0

\* lines 811-818: the toast.error of the check that returns early
AddToCartRejectionSimple(selectedProduct, quantity) ==
    IF quantity <= 0 THEN "Please enter a valid quantity"
    ELSE IF quantity > selectedProduct.qty THEN "Not enough stock available"
    ELSE ""

\* lines 820-833
AddToCartResultSimple(t, selectedProduct, quantity) ==
    LET existingIndex == CartIndexSimple(cart[t], selectedProduct.id)
    IN IF existingIndex > 0
       THEN [cart[t] EXCEPT ![existingIndex].quantity = quantity]
       ELSE Append(cart[t], [product |-> selectedProduct, quantity |-> quantity])

\* lines 809-836
addToCartSimple(t, selectedProduct, quantity) ==
    /\ ~loading[t]
    /\ cart' = [cart EXCEPT ![t] =
           IF selectedProduct = NullProduct THEN @
           ELSE IF AddToCartRejectionSimple(selectedProduct, quantity) # "" THEN @
           ELSE AddToCartResultSimple(t, selectedProduct, quantity)]
    /\ UNCHANGED << dbProducts, dbSales, dbDineInSetting, uuidCount, checkoutCap,
                    inventoryPage, dbIngredients,
                    page, products, loading, inventoryItems, productIngredients,
                    dineInEnabled, selectedPaymentMethod, selectedCustomerType,
                    selectedDineInTakeout, isCheckingOut, checkout, fetches,
                    recentSales >>

\* line 839: cart.filter(item => item.product.id !== productId)
RemoveLineSimple(crt, productId) ==
    SelectSeq(crt, LAMBDA item : item.product.id # productId)

\* lines 838-841
removeFromCartSimple(t, productId) ==
    /\ ~loading[t]
    /\ cart' = [cart EXCEPT ![t] = RemoveLineSimple(@, productId)]
    /\ UNCHANGED << dbProducts, dbSales, dbDineInSetting, uuidCount, checkoutCap,
                    inventoryPage, dbIngredients,
                    page, products, loading, inventoryItems, productIngredients,
                    dineInEnabled, selectedPaymentMethod, selectedCustomerType,
                    selectedDineInTakeout, isCheckingOut, checkout, fetches,
                    recentSales >>

\* lines 849-853: the toast.error of the check that returns early
UpdateRejectionSimple(t, productId, newQuantity) ==
    LET k == CartIndexSimple(cart[t], productId)
    IN IF k # 0 /\ newQuantity > cart[t][k].product.qty
       THEN "Not enough stock available"
       ELSE ""

\* lines 855-859: cart.map(...)
SetLineQuantitySimple(crt, productId, newQuantity) ==
    [i \in 1..Len(crt) |->
        IF crt[i].product.id = productId
        THEN [crt[i] EXCEPT !.quantity = newQuantity]
        ELSE crt[i]]

\* lines 843-860
updateCartQuantitySimple(t, productId, newQuantity) ==
    /\ ~loading[t]
    /\ cart' = [cart EXCEPT ![t] =
           IF newQuantity <= 0 THEN RemoveLineSimple(@, productId)
           ELSE IF UpdateRejectionSimple(t, productId, newQuantity) # "" THEN @
           ELSE SetLineQuantitySimple(@, productId, newQuantity)]
    /\ UNCHANGED << dbProducts, dbSales, dbDineInSetting, uuidCount, checkoutCap,
                    inventoryPage, dbIngredients,
                    page, products, loading, inventoryItems, productIngredients,
                    dineInEnabled, selectedPaymentMethod, selectedCustomerType,
                    selectedDineInTakeout, isCheckingOut, checkout, fetches,
                    recentSales >>

\* lines 1001 and 1008, 1230 and 1247: the step of the - and + buttons
QuantityStep(product) ==
    IF product.unit_type = "weight" THEN Scale \div 10 ELSE Scale

\* quantities the modal can hold when Add is pressed (lines 1230-1247): 0
\* (typed), the step (the minimum of the - button), the product's quantity
\* (the maximum of the + button), and a typed value above it
ModalQuantities(product) ==
    {0, QuantityStep(product), product.qty, product.qty + QuantityStep(product)}

\* lines 870-893: the toast.error of the validation that returns early
CheckoutRejectionSimple(t) ==
    IF Len(cart[t]) = 0 THEN "Cart is empty"
    ELSE IF selectedPaymentMethod[t] = "" THEN "Please select a payment method"
    ELSE IF selectedCustomerType[t] = "" THEN "Please select a customer type"
    ELSE IF dineInEnabled[t] /\ selectedDineInTakeout[t] = Null
    THEN "Please select Dine In or Takeout"
    ELSE IF \E i \in 1..Len(cart[t]) : cart[t][i].quantity > cart[t][i].product.qty
    THEN "Not enough stock"
    ELSE ""

\* lines 902-914: one record per cart line (product_name follows product_id)
SaleRecordsSimple(t, transactionId) ==
    [i \in 1..Len(cart[t]) |->
        [transaction_id  |-> transactionId,
         product_id      |-> cart[t][i].product.id,
         qty             |-> cart[t][i].quantity,
         unit_type       |-> cart[t][i].product.unit_type,
         cost            |-> cart[t][i].product.cost,
         selling_price   |-> cart[t][i].product.selling_price,
         total           |-> (cart[t][i].quantity * cart[t][i].product.selling_price)
                                 \div Scale,
         payment_method  |-> selectedPaymentMethod[t],
         customer_type   |-> selectedCustomerType[t],
         dine_in_takeout |-> IF dineInEnabled[t] THEN selectedDineInTakeout[t]
                             ELSE Null]]

\* lines 869-919 up to the await of the insert.  The Complete Purchase button
\* is disabled while isCheckingOut (line 1122).
handleCheckoutSimple(t) ==
    /\ ~loading[t]
    /\ ~isCheckingOut[t]
    /\ IF CheckoutRejectionSimple(t) # ""
       THEN UNCHANGED << uuidCount, isCheckingOut, checkout >>
       ELSE /\ uuidCount < checkoutCap
            /\ uuidCount' = uuidCount + 1
            /\ isCheckingOut' = [isCheckingOut EXCEPT ![t] = TRUE]
            /\ checkout' = [checkout EXCEPT ![t] =
                   [pc            |-> "insert",
                    cart          |-> cart[t],
                    transactionId |-> uuidCount + 1,
                    saleRecords   |-> SaleRecordsSimple(t, uuidCount + 1)]]
    /\ UNCHANGED << dbProducts, dbSales, dbDineInSetting, checkoutCap,
                    inventoryPage, dbIngredients,
                    page, products, loading, inventoryItems, productIngredients,
                    dineInEnabled, cart, selectedPaymentMethod,
                    selectedCustomerType, selectedDineInTakeout, fetches,
                    recentSales >>

\* InventoryUpdatesSimple with an update for the first cart line only
InventoryUpdatesSimpleFirstLineOnly(crt) ==
    [i \in 1..Min(1, Len(crt)) |->
        [id |-> crt[i].product.id, qty |-> crt[i].product.qty - crt[i].quantity]]

\* lines 924-929: one update per cart line; qty is the absolute value to store
InventoryUpdatesSimple(crt) ==
    [i \in 1..Len(crt) |->
        [id |-> crt[i].product.id, qty |-> crt[i].product.qty - crt[i].quantity]]

\* lines 916-931: the insert returns; on success the updates are issued together
SaleInsertReturnsSimple(t) ==
    /\ checkout[t].pc = "insert"
    /\ \E ok \in BOOLEAN :
          IF ~ok
          THEN /\ CheckoutFails(t)
               /\ UNCHANGED dbSales
          ELSE LET saleData == StoredSaleRows(checkout[t].saleRecords)
               IN /\ dbSales' = dbSales \o saleData
                  /\ checkout' = [checkout EXCEPT ![t] =
                         [pc               |-> "updates",
                          cart             |-> checkout[t].cart,
                          transactionId    |-> checkout[t].transactionId,
                          saleData         |-> saleData,
                          inventoryUpdates |->
                              InventoryUpdatesSimple(checkout[t].cart),
                          pending          |-> 1..Len(checkout[t].cart),
                          inventoryErrors  |-> 0]]
                  /\ UNCHANGED << cart, selectedPaymentMethod, selectedCustomerType,
                                  selectedDineInTakeout, fetches, recentSales,
                                  isCheckingOut >>
    /\ UNCHANGED << dbProducts, dbDineInSetting, uuidCount, checkoutCap,
                    inventoryPage, dbIngredients,
                    page, products, loading, inventoryItems, productIngredients,
                    dineInEnabled >>

-----------------------------------------------------------------------------
(* InventoryPage, lines 1767-2193: the form that edits a row of table      *)
(* products.  The form shows and takes the stock of a weight item in grams *)
(* and of a quantity item in pieces; the table stores kilograms and pieces *)
(* in a DECIMAL(10,2) column.  dbProducts is column qty of the table: the  *)
(* name, unit type and cost the form also writes are not followed, and the *)
(* form is modelled editing an existing row with its unit type kept.       *)

\* largest whole number of grams or pieces typed into the Stock Amount field
MaxFormQty == 12

\* at most this many fetchItems calls of the page are in flight
MaxItemFetches == 2

\* lines 2127-2134 and 1866: the whole numbers the field accepts, parsed
FormQuantities == {g * Scale : g \in 0..MaxFormQty}

\* lines 1782-1787 and 1810-1817: the empty form
EmptyForm == [unit_type |-> "quantity", qty |-> 0]

\* lines 1775-1787 with no fetchItems under way: the component is not mounted
InventoryPageNotOpen ==
    [loading      |-> TRUE,
     items        |-> << >>,
     fetching     |-> 0,
     showAddModal |-> FALSE,
     editingItem  |-> Null,
     formData     |-> EmptyForm]

\* lines 1775-1787 and 1806-1808: after mount, fetchItems in flight
InventoryPageMounted == [InventoryPageNotOpen EXCEPT !.fetching = 1]

\* the state of the sales page and the rest of the database, which the
\* inventory page leaves alone
OutsideInventoryPage ==
    << dbSales, dbDineInSetting, uuidCount, checkoutCap, loading, inventoryItems,
       productIngredients, dineInEnabled, cart, selectedPaymentMethod,
       selectedCustomerType, selectedDineInTakeout, isCheckingOut, checkout,
       fetches, recentSales, page, products, dbIngredients >>

\* lines 1789-1804: the select of fetchItems returns and the setters run
fetchItemsReturns ==
    /\ inventoryPage.fetching > 0
    /\ \E ok \in BOOLEAN :
          inventoryPage' =
              [inventoryPage EXCEPT
                  !.items    = IF ok THEN InventoryRows(dbProducts) ELSE @,
                  !.fetching = @ - 1,
                  !.loading  = FALSE]
    /\ UNCHANGED dbProducts
    /\ UNCHANGED OutsideInventoryPage

\* lines 1825-1838, from the edit button of a listed item (line 2032)
openEditModal(item) ==
    /\ ~inventoryPage.loading
    /\ ~inventoryPage.showAddModal
    /\ LET stockInDisplayUnit ==
               IF item.unit_type = "weight" THEN item.qty * GramsPerKg
               ELSE item.qty
       IN inventoryPage' =
              [inventoryPage EXCEPT
                  !.formData     = [unit_type |-> item.unit_type,
                                    qty       |-> stockInDisplayUnit],
                  !.editingItem  = item.id,
                  !.showAddModal = TRUE]
    /\ UNCHANGED dbProducts
    /\ UNCHANGED OutsideInventoryPage

\* lines 1840-1844, from the close button of the modal (line 2066)
closeModal ==
    /\ inventoryPage.showAddModal
    /\ inventoryPage' = [inventoryPage EXCEPT !.showAddModal = FALSE,
                                              !.editingItem  = Null,
                                              !.formData     = EmptyForm]
    /\ UNCHANGED dbProducts
    /\ UNCHANGED OutsideInventoryPage

\* lines 2127-2134: the Stock Amount field changes
setFormQty(qty) ==
    /\ inventoryPage.showAddModal
    /\ inventoryPage' = [inventoryPage EXCEPT !.formData.qty = qty]
    /\ UNCHANGED dbProducts
    /\ UNCHANGED OutsideInventoryPage

\* line 1875
StorageQty(formData) ==
    IF formData.unit_type = "weight" THEN formData.qty \div GramsPerKg
    ELSE formData.qty

\* lines 1854-1918 for an item being edited: validation, the update of the
\* row (column qty is DECIMAL(10,2), part_000 line 27), closeModal, fetchItems
handleSubmit ==
    /\ inventoryPage.showAddModal
    /\ inventoryPage.editingItem # Null
    /\ IF inventoryPage.formData.qty <= 0
       THEN UNCHANGED << dbProducts, inventoryPage >>
       ELSE \E ok \in BOOLEAN :
               IF ok
               THEN /\ inventoryPage.fetching < MaxItemFetches
                    /\ dbProducts' =
                          [dbProducts EXCEPT ![inventoryPage.editingItem] =
                              RoundDecimal2(StorageQty(inventoryPage.formData))]
                    /\ inventoryPage' =
                          [inventoryPage EXCEPT !.showAddModal = FALSE,
                                                !.editingItem  = Null,
                                                !.formData     = EmptyForm,
                                                !.fetching     = @ + 1]
               ELSE UNCHANGED << dbProducts, inventoryPage >>
    /\ UNCHANGED OutsideInventoryPage

-----------------------------------------------------------------------------
(* The page in one browser tab *)

\* after construction: empty state, the mount effect's fetchData in flight
\* (lines 41-58 and 99-101; 747-763 and 788-790)
InitTabs(tabs) ==
    /\ loading = [t \in tabs |-> TRUE]
    /\ inventoryItems = [t \in tabs |-> << >>]
    /\ productIngredients = [t \in tabs |-> << >>]
    /\ products = [t \in tabs |-> << >>]
    /\ dineInEnabled = [t \in tabs |-> FALSE]
    /\ cart = [t \in tabs |-> << >>]
    /\ selectedPaymentMethod = [t \in tabs |-> ""]
    /\ selectedCustomerType = [t \in tabs |-> ""]
    /\ selectedDineInTakeout = [t \in tabs |-> Null]
    /\ isCheckingOut = [t \in tabs |-> FALSE]
    /\ checkout = [t \in tabs |-> Idle]
    /\ fetches = [t \in tabs |-> {[phase |-> "sent"]}]
    /\ recentSales = [t \in tabs |-> << >>]

InitDb ==
    /\ \E flour \in IF page = "recipe" THEN InitFlourStocks
                    ELSE SimpleInitFlourStocks :
          dbProducts = [egg |-> InitEggStock, flour |-> flour]
    /\ dbSales = << >>
    /\ dbIngredients = IngredientRows
    /\ dbDineInSetting \in BOOLEAN
    /\ uuidCount = 0
    /\ checkoutCap = MaxCheckouts

\* the source holds two SalesPage components; one of them is mounted
Init ==
    /\ page \in {"recipe", "simple"}
    /\ inventoryPage = InventoryPageNotOpen
    /\ InitDb
    /\ InitTabs({1})

RecipePage == page = "recipe"

SimplePage == page = "simple"

Next ==
    \/ \E t \in Tabs : RecipePage /\ FetchServed(t)
    \/ \E t \in Tabs : RecipePage /\ FetchReturns(t)
    \/ \E t \in Tabs, p \in ProductIds \cup {Null}, q \in 0..MaxQuantityInput :
           RecipePage /\ addToCart(t, p, q)
    \/ \E t \in Tabs : \E i \in 1..Len(cart[t]) :
           RecipePage /\ removeFromCart(t, cart[t][i].product)
    \/ \E t \in Tabs : \E i \in 1..Len(cart[t]), d \in {-1, 1} :
           RecipePage /\ updateCartQuantity(t, cart[t][i].product,
                                            cart[t][i].quantity + d)
    \/ \E t \in Tabs : RecipePage /\ handleCheckout(t)
    \/ \E t \in Tabs : RecipePage /\ SaleInsertReturns(t)
    \/ \E t \in Tabs : SimplePage /\ FetchServedSimple(t)
    \/ \E t \in Tabs : SimplePage /\ FetchReturnsSimple(t)
    \/ \E t \in Tabs : \E i \in 1..Len(products[t]) :
           \E q \in ModalQuantities(products[t][i]) :
               \E p \in {products[t][i], NullProduct} :
                   SimplePage /\ addToCartSimple(t, p, q)
    \/ \E t \in Tabs : \E i \in 1..Len(cart[t]) :
           SimplePage /\ removeFromCartSimple(t, cart[t][i].product.id)
    \/ \E t \in Tabs : \E i \in 1..Len(cart[t]), d \in {-1, 1} :
           SimplePage /\ updateCartQuantitySimple(t, cart[t][i].product.id,
                             cart[t][i].quantity + d * QuantityStep(cart[t][i].product))
    \/ \E t \in Tabs : SimplePage /\ handleCheckoutSimple(t)
    \/ \E t \in Tabs : SimplePage /\ SaleInsertReturnsSimple(t)
    \/ \E t \in Tabs : clearCart(t)
    \/ \E t \in Tabs, name \in PaymentMethods : SelectPaymentMethod(t, name)
    \/ \E t \in Tabs, name \in CustomerTypes : SelectCustomerType(t, name)
    \/ \E t \in Tabs, option \in DineOptions : SelectDineInTakeout(t, option)
    \/ \E t \in Tabs : InventoryUpdateReturns(t)
    \/ \E t \in Tabs : InventoryUpdatesSettle(t)

Spec == Init /\ [][Next]_vars

-----------------------------------------------------------------------------
(* Two browser tabs on the recipe page, two checkouts.  Both tabs work on   *)
(* the same tables; the dine-in/takeout setting is off, so the page shows   *)
(* no dine-in buttons (line 495).                                            *)

\* stock of flour in kg (times Scale) at start with two tabs
TwoTabsInitFlourStock == 250

\* products opened in the modal with two tabs
TwoTabsProductIds == {"A"}

InitTwoTabs ==
    /\ page = "recipe"
    /\ inventoryPage = InventoryPageNotOpen
    /\ dbProducts = [egg |-> InitEggStock, flour |-> TwoTabsInitFlourStock]
    /\ dbSales = << >>
    /\ dbIngredients = IngredientRows
    /\ dbDineInSetting = FALSE
    /\ uuidCount = 0
    /\ checkoutCap = MaxCheckouts + 1
    /\ InitTabs({1, 2})

NextTwoTabs ==
    \/ \E t \in Tabs : FetchServed(t)
    \/ \E t \in Tabs : FetchReturns(t)
    \/ \E t \in Tabs, p \in TwoTabsProductIds : addToCart(t, p, 1)
    \/ \E t \in Tabs : \E i \in 1..Len(cart[t]) :
           removeFromCart(t, cart[t][i].product)
    \/ \E t \in Tabs : \E i \in 1..Len(cart[t]), d \in {-1, 1} :
           updateCartQuantity(t, cart[t][i].product, cart[t][i].quantity + d)
    \/ \E t \in Tabs : clearCart(t)
    \/ \E t \in Tabs, name \in PaymentMethods : SelectPaymentMethod(t, name)
    \/ \E t \in Tabs, name \in CustomerTypes : SelectCustomerType(t, name)
    \/ \E t \in Tabs : handleCheckout(t)
    \/ \E t \in Tabs : SaleInsertReturns(t)
    \/ \E t \in Tabs : InventoryUpdateReturns(t)
    \/ \E t \in Tabs : InventoryUpdatesSettle(t)

SpecTwoTabs == InitTwoTabs /\ [][NextTwoTabs]_vars

-----------------------------------------------------------------------------
(* One tab on the recipe page, two checkouts one after the other: a retry   *)
(* after a failure, or a second sale.  The dine-in/takeout setting is off.  *)

\* stock of flour in kg (times Scale) at start
TwoCheckoutsInitFlourStock == 500

\* products opened in the modal
TwoCheckoutsProductIds == {"A", "B"}

InitTwoCheckouts ==
    /\ page = "recipe"
    /\ inventoryPage = InventoryPageNotOpen
    /\ dbProducts = [egg |-> InitEggStock, flour |-> TwoCheckoutsInitFlourStock]
    /\ dbSales = << >>
    /\ dbIngredients = IngredientRows
    /\ dbDineInSetting = FALSE
    /\ uuidCount = 0
    /\ checkoutCap = MaxCheckouts + 1
    /\ InitTabs({1})

NextTwoCheckouts ==
    \/ \E t \in Tabs : FetchServed(t)
    \/ \E t \in Tabs : FetchReturns(t)
    \/ \E t \in Tabs, p \in TwoCheckoutsProductIds : addToCart(t, p, 1)
    \/ \E t \in Tabs : \E i \in 1..Len(cart[t]) :
           removeFromCart(t, cart[t][i].product)
    \/ \E t \in Tabs : \E i \in 1..Len(cart[t]), d \in {-1, 1} :
           updateCartQuantity(t, cart[t][i].product, cart[t][i].quantity + d)
    \/ \E t \in Tabs : clearCart(t)
    \/ \E t \in Tabs, name \in PaymentMethods : SelectPaymentMethod(t, name)
    \/ \E t \in Tabs, name \in CustomerTypes : SelectCustomerType(t, name)
    \/ \E t \in Tabs : handleCheckout(t)
    \/ \E t \in Tabs : SaleInsertReturns(t)
    \/ \E t \in Tabs : InventoryUpdateReturns(t)
    \/ \E t \in Tabs : InventoryUpdatesSettle(t)

SpecTwoCheckouts == InitTwoCheckouts /\ [][NextTwoCheckouts]_vars

-----------------------------------------------------------------------------
(* One tab on the recipe page, one checkout, and a service that answers.   *)
(* Every request of fetchData gets its answer (data or an error result)    *)
(* and the continuation of a settled Promise.all runs: the two steps of a  *)
(* fetch are weakly fair.  Nothing is assumed of the user or of the        *)
(* requests of a checkout.                                                  *)

RefreshTabs == {1}

InitRefresh ==
    /\ page = "recipe"
    /\ inventoryPage = InventoryPageNotOpen
    /\ dbProducts = [egg |-> InitEggStock, flour |-> TwoCheckoutsInitFlourStock]
    /\ dbSales = << >>
    /\ dbIngredients = IngredientRows
    /\ dbDineInSetting = FALSE
    /\ uuidCount = 0
    /\ checkoutCap = MaxCheckouts
    /\ InitTabs(RefreshTabs)

FetchFairness ==
    \A t \in RefreshTabs :
        /\ WF_vars(FetchServed(t))
        /\ WF_vars(FetchReturns(t))

SpecRefresh == InitRefresh /\ [][NextTwoCheckouts]_vars /\ FetchFairness

-----------------------------------------------------------------------------
(* One tab on the recipe page, two checkouts, and a service that answers    *)
(* the requests of a checkout: the insert returns, every update returns,   *)
(* and the continuation of the settled Promise.all runs (lines 321-340).   *)
(* Nothing is assumed of the user or of fetchData.                          *)

CheckoutFairness ==
    \A t \in RefreshTabs :
        /\ WF_vars(SaleInsertReturns(t))
        /\ WF_vars(InventoryUpdateReturns(t))
        /\ WF_vars(InventoryUpdatesSettle(t))

SpecCheckoutReturns ==
    InitTwoCheckouts /\ [][NextTwoCheckouts]_vars /\ CheckoutFairness

-----------------------------------------------------------------------------

(* One tab on the recipe page, one checkout, and a recipe that lists an     *)
(* ingredient twice: table product_ingredients has no unique constraint on *)
(* (product_id, item_id) (part_000 lines 45-51).                            *)

\* rows of table product_ingredients: A needs 200 g flour; D needs flour in
\* two lines, 150 g and 100 g
DuplicateLineRows ==
    << [product_id |-> "A", item_id |-> "flour", qty |-> 200 * Scale],
       [product_id |-> "D", item_id |-> "flour", qty |-> 150 * Scale],
       [product_id |-> "D", item_id |-> "flour", qty |-> 100 * Scale] >>

\* stock of flour in kg (times Scale) at start
DuplicateLineInitFlourStock == 200

\* products opened in the modal
DuplicateLineProductIds == {"A", "D"}

InitDuplicateLine ==
    /\ page = "recipe"
    /\ inventoryPage = InventoryPageNotOpen
    /\ dbProducts = [egg |-> InitEggStock, flour |-> DuplicateLineInitFlourStock]
    /\ dbSales = << >>
    /\ dbIngredients = DuplicateLineRows
    /\ dbDineInSetting = FALSE
    /\ uuidCount = 0
    /\ checkoutCap = MaxCheckouts
    /\ InitTabs({1})

NextDuplicateLine ==
    \/ \E t \in Tabs : FetchServed(t)
    \/ \E t \in Tabs : FetchReturns(t)
    \/ \E t \in Tabs, p \in DuplicateLineProductIds : addToCart(t, p, 1)
    \/ \E t \in Tabs : \E i \in 1..Len(cart[t]) :
           removeFromCart(t, cart[t][i].product)
    \/ \E t \in Tabs : \E i \in 1..Len(cart[t]), d \in {-1, 1} :
           updateCartQuantity(t, cart[t][i].product, cart[t][i].quantity + d)
    \/ \E t \in Tabs : clearCart(t)
    \/ \E t \in Tabs, name \in PaymentMethods : SelectPaymentMethod(t, name)
    \/ \E t \in Tabs, name \in CustomerTypes : SelectCustomerType(t, name)
    \/ \E t \in Tabs : handleCheckout(t)
    \/ \E t \in Tabs : SaleInsertReturns(t)
    \/ \E t \in Tabs : InventoryUpdateReturns(t)
    \/ \E t \in Tabs : InventoryUpdatesSettle(t)

SpecDuplicateLine == InitDuplicateLine /\ [][NextDuplicateLine]_vars

-----------------------------------------------------------------------------

(* One tab on the simple-product page, two checkouts one after the other.  *)
(* Eggs are the only product in stock, the dine-in/takeout setting is off. *)

InitSimpleTwoCheckouts ==
    /\ page = "simple"
    /\ inventoryPage = InventoryPageNotOpen
    /\ dbProducts = [egg |-> InitEggStock, flour |-> 0]
    /\ dbSales = << >>
    /\ dbIngredients = IngredientRows
    /\ dbDineInSetting = FALSE
    /\ uuidCount = 0
    /\ checkoutCap = MaxCheckouts + 1
    /\ InitTabs({1})

NextSimpleTwoCheckouts ==
    \/ \E t \in Tabs : FetchServedSimple(t)
    \/ \E t \in Tabs : FetchReturnsSimple(t)
    \/ \E t \in Tabs : \E i \in 1..Len(products[t]) :
           \E q \in ModalQuantities(products[t][i]) :
               addToCartSimple(t, products[t][i], q)
    \/ \E t \in Tabs : \E i \in 1..Len(cart[t]) :
           removeFromCartSimple(t, cart[t][i].product.id)
    \/ \E t \in Tabs : \E i \in 1..Len(cart[t]), d \in {-1, 1} :
           updateCartQuantitySimple(t, cart[t][i].product.id,
                             cart[t][i].quantity + d * QuantityStep(cart[t][i].product))
    \/ \E t \in Tabs : clearCart(t)
    \/ \E t \in Tabs, name \in PaymentMethods : SelectPaymentMethod(t, name)
    \/ \E t \in Tabs, name \in CustomerTypes : SelectCustomerType(t, name)
    \/ \E t \in Tabs : handleCheckoutSimple(t)
    \/ \E t \in Tabs : SaleInsertReturnsSimple(t)
    \/ \E t \in Tabs : InventoryUpdateReturns(t)
    \/ \E t \in Tabs : InventoryUpdatesSettle(t)

SpecSimpleTwoCheckouts == InitSimpleTwoCheckouts /\ [][NextSimpleTwoCheckouts]_vars

-----------------------------------------------------------------------------

(* The inventory page at work, with no tab of the sales page open.          *)

InitInventory ==
    /\ page = "recipe"
    /\ inventoryPage = InventoryPageMounted
    /\ dbProducts = [egg |-> InitEggStock, flour |-> TwoCheckoutsInitFlourStock]
    /\ dbSales = << >>
    /\ dbIngredients = IngredientRows
    /\ dbDineInSetting = FALSE
    /\ uuidCount = 0
    /\ checkoutCap = MaxCheckouts
    /\ InitTabs({})

NextInventory ==
    \/ fetchItemsReturns
    \/ \E i \in 1..Len(inventoryPage.items) : openEditModal(inventoryPage.items[i])
    \/ closeModal
    \/ \E qty \in FormQuantities : setFormQty(qty)
    \/ handleSubmit

SpecInventory == InitInventory /\ [][NextInventory]_vars

-----------------------------------------------------------------------------
(* Vocabulary of the properties *)

\* sum of the values of a function with a finite domain
RECURSIVE SumFn(_)
SumFn(f) ==
    IF DOMAIN f = {} THEN 0
    ELSE LET x == CHOOSE x \in DOMAIN f : TRUE
         IN f[x] + SumFn([y \in DOMAIN f \ {x} |-> f[y]])

\* the pairs <<cart line, recipe line>> of a cart that name ingredient itemId
LinesUsing(ingredients, crt, itemId) ==
    {<<i, j>> \in (1..Len(crt)) \X (1..Len(IngredientRows)) :
        /\ j <= Len(IngredientsOf(ingredients, crt[i].product))
        /\ IngredientsOf(ingredients, crt[i].product)[j].item_id = itemId}

\* what a cart needs of one ingredient, in the recipe unit: the sum over all
\* cart lines of recipe quantity x line quantity
RequiredOfItem(ingredients, crt, itemId) ==
    SumFn([ij \in LinesUsing(ingredients, crt, itemId) |->
              IngredientsOf(ingredients, crt[ij[1]].product)[ij[2]].qty
                  * crt[ij[1]].quantity])

\* the ingredients a cart's recipes name
ItemsOfCart(ingredients, crt) ==
    {id \in {ItemIds[k] : k \in 1..Len(ItemIds)} :
        LinesUsing(ingredients, crt, id) # {}}

\* a quantity in the recipe unit (grams, pieces) in the unit the table stores
ToStorageUnit(itemId, amount) ==
    IF ItemUnitType[itemId] = "weight" THEN amount \div GramsPerKg ELSE amount

\* the quantity a snapshot holds for an item it contains
SnapshotQty(items, itemId) == items[FindItemIndex(items, itemId)].qty

\* the whole history of table sales is one successful checkout by tab t of
\* the cart {A: a, B: b}
SoldOnce(t, a, b) ==
    /\ uuidCount = 1
    /\ recentSales[t] # << >>
    /\ checkout[t].pc = "idle"
    /\ Len(dbSales) = 2
    /\ {<<dbSales[k].product_id, dbSales[k].qty>> : k \in 1..Len(dbSales)}
           = {<<"A", a>>, <<"B", b>>}

-----------------------------------------------------------------------------
(* C1 *)

\* C1: a checkout whose cart lines share an ingredient issues exactly one
\* inventory update for that ingredient, and the value it writes is the
\* closure's snapshot quantity minus the sum over all cart lines of recipe
\* quantity x line quantity, in the storage unit; with 1000 g of flour, A
\* needing 200 g and B 300 g, the cart {A: 2, B: 1} leaves 300 g (0.30 kg).
C1_SharedIngredientDeductedOnce ==
    RecipePage =>
    \A t \in Tabs :
        /\ checkout[t].pc = "updates" =>
              \A itemId \in ItemsOfCart(productIngredients[t], checkout[t].cart) :
                  LET updates == checkout[t].inventoryUpdates
                      hits    == {k \in 1..Len(updates) : updates[k].id = itemId}
                  IN /\ Cardinality(hits) = 1
                     /\ \A k \in hits :
                            updates[k].qty =
                                SnapshotQty(checkout[t].inventoryItems, itemId)
                                - ToStorageUnit(itemId,
                                      RequiredOfItem(productIngredients[t],
                                                     checkout[t].cart, itemId))
        /\ SoldOnce(t, 2, 1) => dbProducts["flour"] = 300

C1_Witness ==
    /\ RecipePage
    /\ SoldOnce(1, 2, 1)
    /\ dbProducts["flour"] = 300
    /\ dbProducts["egg"] = 2 * Scale

-----------------------------------------------------------------------------
(* C2 *)

\* the stock a snapshot holds of an item, in the recipe unit
StockInRecipeUnit(items, itemId) ==
    IF ItemUnitType[itemId] = "weight"
    THEN SnapshotQty(items, itemId) * GramsPerKg
    ELSE SnapshotQty(items, itemId)

\* what the cart lines of products other than productId reserve of an
\* ingredient: per line, the quantity of its recipe for that ingredient
\* times the line's quantity
ReservedByOtherLines(ingredients, crt, productId, itemId) ==
    LET others == {i \in 1..Len(crt) :
                      /\ crt[i].product # productId
                      /\ \E j \in 1..Len(IngredientsOf(ingredients, crt[i].product)) :
                             IngredientsOf(ingredients, crt[i].product)[j].item_id
                                 = itemId}
        recipeQty(i) ==
            LET lines == IngredientsOf(ingredients, crt[i].product)
            IN lines[FindIngredientIndex(lines, itemId)].qty
    IN SumFn([i \in others |-> recipeQty(i) * crt[i].quantity])

\* a recipe line that makes the product unsellable by itself
LineUnusable(items, line) ==
    FindItemIndex(items, line.item_id) = 0 \/ line.qty = 0

\* floor((stock in recipe unit - reservations by other cart lines) / quantityPerUnit)
LineRatio(ingredients, items, crt, productId, line) ==
    (StockInRecipeUnit(items, line.item_id)
        - ReservedByOtherLines(ingredients, crt, productId, line.item_id))
    \div line.qty

\* getMaxQuantity(P) is the minimum over P's recipe lines of the floored
\* ratio, and 0 if some line's ingredient is missing or its quantity is 0
MaxQuantityIsFloorOfMinRatio(t, productId) ==
    LET lines == IngredientsOf(productIngredients[t], productId)
        max   == getMaxQuantity(t, productId)
    IN Len(lines) > 0 =>
          IF \E j \in 1..Len(lines) : LineUnusable(inventoryItems[t], lines[j])
          THEN max = 0
          ELSE /\ \E j \in 1..Len(lines) :
                      max = LineRatio(productIngredients[t], inventoryItems[t],
                                      cart[t], productId, lines[j])
               /\ \A j \in 1..Len(lines) :
                      max <= LineRatio(productIngredients[t], inventoryItems[t],
                                       cart[t], productId, lines[j])

\* the part of C2 the code satisfies in every state
C2_FloorOfMinRatioPart ==
    RecipePage =>
    \A t \in Tabs, p \in ProductIds : MaxQuantityIsFloorOfMinRatio(t, p)

\* C2: for every snapshot, recipe and cart, getMaxQuantity(P) is a
\* non-negative integer equal to the minimum over P's recipe lines of
\* floor((stock - reservations by other cart lines) / quantityPerUnit), and
\* 0 if an ingredient is missing from the snapshot or a recipe quantity is 0.
C2_MaxQuantityNonNegativeFloorOfMin ==
    RecipePage =>
    \A t \in Tabs, p \in ProductIds :
        /\ getMaxQuantity(t, p) \in Nat
        /\ MaxQuantityIsFloorOfMinRatio(t, p)

-----------------------------------------------------------------------------
(* C3 *)

\* the cart holds a line for the product with that quantity
HasLine(crt, productId, quantity) ==
    \E i \in 1..Len(crt) : crt[i].product = productId /\ crt[i].quantity = quantity

\* addToCart of the product with that quantity goes through and leaves a
\* line for the product with that quantity
AddSucceeds(t, productId, quantity) ==
    /\ AddToCartRejection(t, productId, quantity) = ""
    /\ HasLine(CartAfterAdd(t, productId, quantity), productId, quantity)

\* addToCart of the product with that quantity is refused: the cart stays as it is
AddRejected(t, productId, quantity) ==
    /\ AddToCartRejection(t, productId, quantity) # ""
    /\ CartAfterAdd(t, productId, quantity) = cart[t]

\* C3 as claimed: for every product P and every cart/inventory state,
\* addToCart of P with quantity getMaxQuantity(P) succeeds and with quantity
\* getMaxQuantity(P) + 1 is rejected.
C3_AddAtMaxSucceedsAlways ==
    RecipePage =>
    \A t \in Tabs, p \in ProductIds :
        ~loading[t] =>
            /\ AddSucceeds(t, p, getMaxQuantity(t, p))
            /\ AddRejected(t, p, getMaxQuantity(t, p) + 1)

\* C3 as amended: for every product P with getMaxQuantity(P) >= 1,
\* addToCart of P with quantity getMaxQuantity(P) succeeds; for every product
\* P, addToCart with quantity getMaxQuantity(P) + 1 is rejected.
C3_AddAtPositiveMaxSucceeds ==
    RecipePage =>
    \A t \in Tabs, p \in ProductIds :
        ~loading[t] =>
            /\ getMaxQuantity(t, p) >= 1 => AddSucceeds(t, p, getMaxQuantity(t, p))
            /\ AddRejected(t, p, getMaxQuantity(t, p) + 1)

\* a line added with exactly the maximum, another product's line reserving
\* part of the shared stock
C3_Witness ==
    /\ RecipePage
    /\ ~loading[1]
    /\ Len(cart[1]) = 2
    /\ cart[1][2].product = "A"
    /\ cart[1][2].quantity = getMaxQuantity(1, "A")
    /\ getMaxQuantity(1, "A") >= 1
    /\ AddRejected(1, "A", getMaxQuantity(1, "A") + 1)

-----------------------------------------------------------------------------
(* C4 *)

\* the stored-stock half of C4: once the checkout of {A: 3, B: 1} against
\* 1000 g of flour has succeeded, table products holds 100 g (0.10 kg)
C4_StoredStockPart ==
    RecipePage =>
    \A t \in Tabs : SoldOnce(t, 3, 1) => dbProducts["flour"] = 100

\* C4: after a successful checkout of cart {A: 3, B: 1} against 1000 g of
\* flour (A 200 g per unit, B 300 g per unit) the stored stock is 100 g, and
\* every later attempt in that tab to add one unit of A is rejected.
C4_AddAfterCheckoutRejected ==
    RecipePage =>
    \A t \in Tabs :
        SoldOnce(t, 3, 1) =>
            /\ dbProducts["flour"] = 100
            /\ ~loading[t] => AddRejected(t, "A", 1)

-----------------------------------------------------------------------------
(* C5 *)

\* the cart without the line of the product
WithoutOwnLine(crt, productId) ==
    SelectSeq(crt, LAMBDA item : item.product # productId)

\* canSellProduct(P, q) decided from the stock and the lines of the other
\* products alone
EnoughBesideOthers(t, productId, qty) ==
    LET lines == IngredientsOf(productIngredients[t], productId)
    IN /\ Len(lines) > 0
       /\ \A j \in 1..Len(lines) :
             /\ FindItemIndex(inventoryItems[t], lines[j].item_id) # 0
             /\ StockInRecipeUnit(inventoryItems[t], lines[j].item_id)
                    >= lines[j].qty * qty
                       + RequiredOfItem(productIngredients[t],
                                        WithoutOwnLine(cart[t], productId),
                                        lines[j].item_id)

\* C5: getMaxQuantity(P) and canSellProduct(P, q) subtract what the cart
\* lines of the other products reserve and not what P's own line holds:
\* both give the same result on the cart without P's line, canSellProduct
\* compares the stock with q units of P plus the requirement of the other
\* lines, and whether addToCart or updateCartQuantity accepts quantity q for
\* P is decided by q and the cart without P's line.
C5_OwnLineNotReserved ==
    RecipePage =>
    \A t \in Tabs, p \in ProductIds :
        LET others   == WithoutOwnLine(cart[t], p)
            maxOther == MaxQuantity(productIngredients[t], inventoryItems[t],
                                    others, p)
        IN /\ getMaxQuantity(t, p) = maxOther
           /\ \A q \in 0..MaxQuantityInput :
                 /\ canSellProduct(t, p, q)
                        = CanSell(productIngredients[t], inventoryItems[t], others, p, q)
                 /\ canSellProduct(t, p, q) = EnoughBesideOthers(t, p, q)
                 /\ (UpdateRejection(t, p, q) = "") = (q <= maxOther)
                 /\ (AddToCartRejection(t, p, q) = "") = (q > 0 /\ q <= maxOther)

\* P's line holds the whole stock while another product's line shares the
\* ingredient: A at its maximum 3 beside one B, 1000 g of flour
C5_Witness ==
    /\ RecipePage
    /\ ~loading[1]
    /\ HasLine(cart[1], "B", 1)
    /\ HasLine(cart[1], "A", 3)
    /\ getMaxQuantity(1, "A") = 3
    /\ canSellProduct(1, "A", 3)
    /\ ~canSellProduct(1, "A", 4)

-----------------------------------------------------------------------------
(* C6 *)

\* the product has no recipe lines in the tab's productIngredients
NoRecipeLines(t, productId) ==
    Len(IngredientsOf(productIngredients[t], productId)) = 0

\* C6: a finished product with zero recipe lines is never sellable:
\* getMaxQuantity is 0, canSellProduct is false for every quantity, addToCart
\* refuses it, and the cart never holds a line for it.
C6_NoRecipeNeverSellable ==
    RecipePage =>
    \A t \in Tabs, p \in ProductIds :
        NoRecipeLines(t, p) =>
            /\ getMaxQuantity(t, p) = 0
            /\ \A q \in 0..MaxQuantityInput :
                  /\ ~canSellProduct(t, p, q)
                  /\ AddRejected(t, p, q)
            /\ CartIndex(cart[t], p) = 0

\* the recipes are loaded, the cart holds lines of other products, and the
\* product without recipe lines is refused
C6_Witness ==
    /\ RecipePage
    /\ ~loading[1]
    /\ ~NoRecipeLines(1, "A")
    /\ NoRecipeLines(1, "Z")
    /\ Len(cart[1]) = 2
    /\ AddRejected(1, "Z", 1)
    /\ AddToCartRejection(1, "Z", 0) = "Please enter a valid quantity"
    /\ AddToCartRejection(1, "Z", 1) = "Not enough ingredients in stock"

-----------------------------------------------------------------------------
(* C7 *)

\* the product id of a cart line of the mounted page
LineProductId(line) == IF RecipePage THEN line.product ELSE line.product.id

\* the product ids of the lines of a cart, in the cart's order
ProductIdsOf(crt) == [i \in 1..Len(crt) |-> LineProductId(crt[i])]

\* at most one line per product id, every line with quantity > 0
CartWellFormed(crt) ==
    /\ \A i \in 1..Len(crt) : crt[i].quantity > 0
    /\ \A i, j \in 1..Len(crt) : LineProductId(crt[i]) = LineProductId(crt[j]) => i = j

\* what a step may do to the lines of a cart: keep them (quantities may be
\* overwritten in place), append one line for a product that had none, or
\* drop the line of one product or all lines
CartLinesStep(before, after) ==
    \/ after = before
    \/ /\ Len(after) = Len(before) + 1
       /\ SubSeq(after, 1, Len(before)) = before
       /\ \A i \in 1..Len(before) : before[i] # after[Len(after)]
    \/ after = << >>
    \/ \E i \in 1..Len(before) :
           after = SelectSeq(before, LAMBDA id : id # before[i])

\* C7: after any sequence of addToCart, updateCartQuantity, removeFromCart,
\* clearCart and checkout, on either sales page, the cart holds at most one
\* line per product id and every line has quantity > 0; no step appends a
\* line for a product that already has one: adding such a product keeps the
\* lines and their order and overwrites the quantity in place.
C7_OneLinePerProduct ==
    /\ [](\A t \in Tabs : CartWellFormed(cart[t]))
    /\ [][\A t \in Tabs :
              CartLinesStep(ProductIdsOf(cart[t]), ProductIdsOf(cart'[t]))]_vars

\* two lines, the first of them re-added with another quantity: the
\* overwrite keeps it first
C7_Witness ==
    /\ RecipePage
    /\ ~loading[1]
    /\ Len(cart[1]) = 2
    /\ HasLine(cart[1], "A", 2)
    /\ cart[1][1].product = "A"
    /\ cart[1][2].product = "B"
    /\ AddToCartRejection(1, "A", 1) = ""
    /\ ProductIdsOf(CartAfterAdd(1, "A", 1)) = <<"A", "B">>

-----------------------------------------------------------------------------
(* C8 *)

\* what C8 says the cart is after updateCartQuantity(P, n): without P's line
\* when n <= 0; with P's line at quantity n and the other lines as they
\* were when 0 < n <= the maximum computed from the tab's current snapshot
\* and the lines of the other products; unchanged otherwise
UpdateAsClaimed(t, productId, n, after) ==
    LET before == cart[t]
        max    == MaxQuantity(productIngredients[t], inventoryItems[t],
                              WithoutOwnLine(before, productId), productId)
    IN IF n <= 0
       THEN /\ CartIndex(after, productId) = 0
            /\ after = SelectSeq(before, LAMBDA item : item.product # productId)
       ELSE IF n <= max
       THEN /\ Len(after) = Len(before)
            /\ \A i \in 1..Len(before) :
                  /\ after[i].product = before[i].product
                  /\ after[i].ingredients = before[i].ingredients
                  /\ after[i].quantity = IF before[i].product = productId THEN n
                                         ELSE before[i].quantity
       ELSE after = before

\* C8: updateCartQuantity(P, n) removes P's line when n <= 0; when n > 0 it
\* sets the line's quantity to n only if n <= getMaxQuantity(P) computed
\* against the current snapshot and the other cart lines, and otherwise
\* leaves the cart unchanged.
C8_UpdateCartQuantity ==
    RecipePage =>
        \A t \in Tabs :
            ~loading[t] =>
                \A i \in 1..Len(cart[t]), n \in -1..(MaxQuantityInput + 1) :
                    UpdateAsClaimed(t, cart[t][i].product, n,
                                    CartAfterUpdate(t, cart[t][i].product, n))

\* A at its maximum 3 beside one B with 1000 g of flour: 4 is refused, 2 is
\* set, 0 removes the line
C8_Witness ==
    /\ RecipePage
    /\ ~loading[1]
    /\ Len(cart[1]) = 2
    /\ HasLine(cart[1], "B", 1)
    /\ HasLine(cart[1], "A", 3)
    /\ CartAfterUpdate(1, "A", 4) = cart[1]
    /\ HasLine(CartAfterUpdate(1, "A", 2), "A", 2)
    /\ Len(CartAfterUpdate(1, "A", 0)) = 1

-----------------------------------------------------------------------------
(* C9 *)

\* the cart is empty and payment method, customer type and dine-in/takeout
\* choice are unset
Cleared(t) ==
    /\ cart[t] = << >>
    /\ selectedPaymentMethod[t] = ""
    /\ selectedCustomerType[t] = ""
    /\ selectedDineInTakeout[t] = Null

\* C9: after clearCart, in any state of either sales page, the cart is empty
\* and the selected payment method, customer type and dine-in/takeout choice
\* are all unset: clearCart can run in every state of the rendered page and
\* every step it takes ends in such a state.
C9_ClearCartResets ==
    /\ [](\A t \in Tabs : ~loading[t] => ENABLED (clearCart(t) /\ Cleared(t)'))
    /\ [][\A t \in Tabs : clearCart(t) => Cleared(t)']_vars

\* a checkout submitted with a dine-in choice is in flight and the live cart
\* and selections have been cleared under it: only clearCart unsets a
\* selection
C9_Witness ==
    /\ isCheckingOut[1]
    /\ checkout[1].pc = "updates"
    /\ checkout[1].saleData[1].dine_in_takeout = "dine_in"
    /\ checkout[1].saleData[1].payment_method = "Cash"
    /\ Cleared(1)

-----------------------------------------------------------------------------
(* C10 *)

\* the preconditions of a checkout, on the tab's state at submission
CheckoutPreconditions(t) ==
    /\ Len(cart[t]) > 0
    /\ selectedPaymentMethod[t] # ""
    /\ selectedCustomerType[t] # ""
    /\ dineInEnabled[t] => selectedDineInTakeout[t] # Null
    /\ \A i \in 1..Len(cart[t]) :
           canSellProduct(t, cart[t][i].product, cart[t][i].quantity)

\* C10: handleCheckout inserts no sale record, issues no inventory update
\* and leaves cart and selections unchanged unless, at submission, the cart
\* is non-empty, a payment method and a customer type are selected, a
\* dine-in/takeout option is selected when the flag is on, and
\* canSellProduct holds for every cart line: a submission without them can
\* run and changes nothing, a handleCheckout step that changes anything
\* starts from a state with them, and table sales and table products change
\* only under a checkout that was started so.
C10_NoPersistenceWithoutPreconditions ==
    /\ [](RecipePage =>
            \A t \in Tabs :
                (~loading[t] /\ ~isCheckingOut[t] /\ ~CheckoutPreconditions(t))
                    => ENABLED (handleCheckout(t) /\ UNCHANGED vars))
    /\ [][RecipePage =>
            \A t \in Tabs :
                /\ handleCheckout(t) /\ ~CheckoutPreconditions(t) => UNCHANGED vars
                /\ (checkout[t].pc = "idle" /\ checkout'[t].pc # "idle")
                       => CheckoutPreconditions(t)]_vars
    /\ [][RecipePage =>
            /\ dbSales' # dbSales => \E t \in Tabs : checkout[t].pc = "insert"
            /\ dbProducts' # dbProducts => \E t \in Tabs : checkout[t].pc = "updates"]_vars

\* after one sale, a cart filled against the old snapshot is submitted with
\* every selection made once the refresh has delivered the new stock: the
\* submission is refused for lack of ingredients
C10_Witness ==
    /\ RecipePage
    /\ ~loading[1]
    /\ ~isCheckingOut[1]
    /\ Len(dbSales) = 1
    /\ Len(cart[1]) > 0
    /\ selectedPaymentMethod[1] # ""
    /\ selectedCustomerType[1] # ""
    /\ dineInEnabled[1] /\ selectedDineInTakeout[1] # Null
    /\ CheckoutRejection(1) = "Not enough ingredients"
    /\ ~CheckoutPreconditions(1)

-----------------------------------------------------------------------------
(* C11 *)

\* the rows a step appends to table sales
InsertedRows == SubSeq(dbSales', Len(dbSales) + 1, Len(dbSales'))

\* the transaction ids of the rows of table sales
TransactionIds(rows) == {rows[k].transaction_id : k \in 1..Len(rows)}

\* C11: a checkout whose sale insert succeeds persists exactly one sale
\* record per line of the cart it was submitted with, all of them with the
\* same transaction id, and that id is on no record of any other checkout:
\* table sales only grows, and every step that changes it is the insert of
\* one checkout appending one row per cart line, in the cart's order, under
\* an id no earlier row has.
C11_OneRecordPerLineOneFreshId ==
    [][dbSales' # dbSales =>
          \E t \in Tabs :
              /\ checkout[t].pc = "insert"
              /\ checkout'[t].pc # "insert"
              /\ SubSeq(dbSales', 1, Len(dbSales)) = dbSales
              /\ Len(InsertedRows) = Len(checkout[t].cart)
              /\ \A i \in 1..Len(InsertedRows) :
                    /\ InsertedRows[i].product_id = checkout[t].cart[i].product
                    /\ InsertedRows[i].qty = checkout[t].cart[i].quantity
              /\ Cardinality(TransactionIds(InsertedRows)) = 1
              /\ TransactionIds(InsertedRows) \cap TransactionIds(dbSales) = {}]_vars

\* a cart of two lines inserted twice, by a checkout whose inventory update
\* failed and by its retry: four rows, two per transaction id
C11_Witness ==
    /\ Len(dbSales) = 4
    /\ dbSales[1].transaction_id = dbSales[2].transaction_id
    /\ dbSales[3].transaction_id = dbSales[4].transaction_id
    /\ dbSales[1].transaction_id # dbSales[3].transaction_id
    /\ dbSales[1].product_id # dbSales[2].product_id

-----------------------------------------------------------------------------
(* C12 *)

\* the cost of one unit of a product: over its recipe lines, the cost the
\* snapshot holds for the ingredient x the recipe quantity (nothing for an
\* ingredient the snapshot lacks)
RecipeRollUp(ingredients, items, productId) ==
    LET lines == IngredientsOf(ingredients, productId)
    IN SumFn([j \in 1..Len(lines) |->
                 IF FindItemIndex(items, lines[j].item_id) # 0
                 THEN (items[FindItemIndex(items, lines[j].item_id)].cost
                          * lines[j].qty) \div Scale
                 ELSE 0])

-----------------------------------------------------------------------------
(* C13 *)

\* the step in which Promise.all over the inventory updates of tab t's
\* checkout resolves and handleCheckout runs to its end
UpdatesSettle(t) ==
    /\ checkout[t].pc = "updates"
    /\ checkout'[t].pc = "idle"

\* an update of the checkout that settles was refused
AnUpdateFailed(t) == checkout[t].inventoryErrors > 0

\* the rows of a sequence, as a set
RowsOf(rows) == {rows[k] : k \in 1..Len(rows)}

\* C13: when the sale insert succeeded and at least one inventory update then
\* fails, the checkout ends as a failure (no recent sale is announced, no
\* refresh is started), the inserted sale records stay in table sales, the
\* updates that succeeded stay applied, and the cart and the selections are
\* left as they were.
C13_FailedUpdateKeepsSalesAndCart ==
    [][\A t \in Tabs :
          (RecipePage /\ UpdatesSettle(t) /\ AnUpdateFailed(t)) =>
              /\ recentSales' = recentSales
              /\ fetches' = fetches
              /\ ~isCheckingOut'[t]
              /\ dbSales' = dbSales
              /\ RowsOf(checkout[t].saleData) \subseteq RowsOf(dbSales')
              /\ dbProducts' = dbProducts
              /\ cart'[t] = cart[t]
              /\ selectedPaymentMethod' = selectedPaymentMethod
              /\ selectedCustomerType' = selectedCustomerType
              /\ selectedDineInTakeout' = selectedDineInTakeout]_vars

\* a checkout of B ended with its sale records stored, the update of egg
\* applied and the update of flour refused: the cart is still there and no
\* sale was announced
C13_Witness ==
    /\ RecipePage
    /\ \E t \in Tabs :
          /\ checkout[t].pc = "idle"
          /\ ~isCheckingOut[t]
          /\ uuidCount = 1
          /\ Len(dbSales) > 0
          /\ dbProducts["egg"] < InitEggStock
          /\ dbProducts["flour"] \in InitFlourStocks
          /\ cart[t] # << >>
          /\ recentSales[t] = << >>

-----------------------------------------------------------------------------
(* C14 *)

\* the step in which tab t's checkout settles with no update refused: the
\* insert and every update succeeded
CheckoutCompletes(t) ==
    /\ UpdatesSettle(t)
    /\ ~AnUpdateFailed(t)

\* what the step that completes a checkout leaves behind
CompletionEffects ==
    \A t \in RefreshTabs :
        CheckoutCompletes(t) =>
            /\ cart'[t] = << >>
            /\ selectedPaymentMethod'[t] = ""
            /\ selectedCustomerType'[t] = ""
            /\ selectedDineInTakeout'[t] = Null
            /\ recentSales'[t] = Append(recentSales[t], checkout[t].saleData[1])
            /\ checkout[t].saleData[1] \in RowsOf(dbSales)
            /\ checkout[t].saleData[1].transaction_id = checkout[t].transactionId
            /\ [phase |-> "sent"] \in fetches'[t]

\* the n-th checkout that was started is the latest one, tab t has completed
\* it (its first record is the last one handed to addRecentSale), and the
\* request of the refresh it started (line 355) is on its way
Completed(t, n) ==
    /\ uuidCount = n
    /\ checkout[t].pc = "idle"
    /\ recentSales[t] # << >>
    /\ recentSales[t][Len(recentSales[t])].transaction_id = n
    /\ [phase |-> "sent"] \in fetches[t]

\* another writer has come in: a checkout started after the n-th (the only
\* writers of table products here are checkouts)
OtherWriter(n) == uuidCount > n

\* the tab's snapshot holds the rows of table products as they are stored
SnapshotIsStored(t) == inventoryItems[t] = InventoryRows(dbProducts)

\* a refresh of the tab has come back with no data for table products
\* (line 72 then keeps the old snapshot)
RefreshWithoutInventory(t) ==
    \E r \in fetches[t] : r.phase = "received" /\ ~r.inventoryOk

-----------------------------------------------------------------------------
(* C15 *)

\* the step in which handleSubmit has saved the form: the modal closes and
\* fetchItems is called (lines 1910-1911)
SubmitSaves ==
    /\ inventoryPage.showAddModal
    /\ ~inventoryPage'.showAddModal
    /\ inventoryPage'.fetching = inventoryPage.fetching + 1

\* what the sales page computes as the stock of an item from the row a select
\* on table products returns (lines 64 and 104-107)
StockReadBySalesPage(table, id) ==
    getInventoryInIngredientUnit(
        InventoryRows(table)[FindItemIndex(InventoryRows(table), id)])

\* C15: a stock of g grams typed into the inventory form for a weight item
\* and saved is read back by the availability calculation of the sales page
\* as exactly g grams, for every whole number of grams g.
C15_WeightRoundTrip ==
    [][(SubmitSaves /\ inventoryPage.formData.unit_type = "weight") =>
          StockReadBySalesPage(dbProducts', inventoryPage.editingItem)
              = inventoryPage.formData.qty]_vars

\* the part of C15 that holds: a saved weight that is a whole number of
\* hundredths of a kilogram (a multiple of 10 g) is read back as typed
C15_RoundTripOfStorableWeights ==
    [][(/\ SubmitSaves
        /\ inventoryPage.formData.unit_type = "weight"
        /\ inventoryPage.formData.qty % (10 * Scale) = 0) =>
          StockReadBySalesPage(dbProducts', inventoryPage.editingItem)
              = inventoryPage.formData.qty]_vars

-----------------------------------------------------------------------------
(* C16 *)

\* the updates a simple-product checkout has issued are, line by line, those
\* of its cart: the line's own product row, and the quantity the captured
\* product object holds minus the line's quantity
UpdatesFollowCartLines(t) ==
    LET crt == checkout[t].cart
        ups == checkout[t].inventoryUpdates
    IN /\ Len(ups) = Len(crt)
       /\ \A i \in 1..Len(crt) :
             /\ ups[i].id = crt[i].product.id
             /\ ups[i].qty = crt[i].product.qty - crt[i].quantity

\* a step that changes table products writes one row, with the value of a
\* pending update of a checkout of some tab
WritesOnePendingUpdate ==
    \E t \in Tabs :
        /\ checkout[t].pc = "updates"
        /\ \E i \in checkout[t].pending :
              LET u == checkout[t].inventoryUpdates[i]
              IN /\ dbProducts' = [dbProducts EXCEPT ![u.id] = RoundDecimal2(u.qty)]
                 /\ \/ checkout'[t].pc = "idle"
                    \/ checkout'[t].pending = checkout[t].pending \ {i}

\* C16: the simple-product checkout writes, for each cart line, the quantity
\* the product had when it was put in the cart minus the line's sold
\* quantity, to that product's own row, with one update per cart line.
C16_SimpleCheckoutWritesCapturedMinusSold ==
    /\ [](SimplePage =>
             \A t \in Tabs : checkout[t].pc = "updates" => UpdatesFollowCartLines(t))
    /\ [][(SimplePage /\ dbProducts' # dbProducts) => WritesOnePendingUpdate]_vars

\* a simple-product checkout of a cart with a line of egg and a line of flour
\* has completed and both rows were written
C16_Witness ==
    /\ SimplePage
    /\ \E t \in Tabs :
          /\ checkout[t].pc = "idle"
          /\ recentSales[t] # << >>
          /\ Len(dbSales) = 2
          /\ dbProducts["egg"] < InitEggStock
          /\ \A flour \in SimpleInitFlourStocks : dbProducts["flour"] < flour

-----------------------------------------------------------------------------
(* C17 *)

\* the tabs of the two-tab run
TwoTabs == {1, 2}

\* what the recipes of the stored sale records need of an ingredient, in the
\* unit of table products
SoldOfItem(itemId) ==
    ToStorageUnit(itemId,
        SumFn([k \in 1..Len(dbSales) |->
                  SumFn([j \in {j \in 1..Len(IngredientRows) :
                                   /\ IngredientRows[j].product_id = dbSales[k].product_id
                                   /\ IngredientRows[j].item_id = itemId} |->
                            IngredientRows[j].qty * dbSales[k].qty])]))

\* both tabs validated a cart against the snapshot taken at start and both
\* checkouts ran to completion, and together they sold more flour than the
\* table held
BothTabsOversold ==
    /\ Tabs = TwoTabs
    /\ \A t \in Tabs : recentSales[t] # << >> /\ checkout[t].pc = "idle"
    /\ SoldOfItem("flour") > TwoTabsInitFlourStock

\* C17: two tabs with the same snapshot both pass canSellProduct for carts
\* that together need more of an ingredient than is in stock, both checkouts
\* complete, and the stored quantity of the ingredient has then gone
\* negative: both deductions were taken from it.
C17_OversoldStockGoesNegative ==
    BothTabsOversold =>
        /\ dbProducts["flour"] = TwoTabsInitFlourStock - SoldOfItem("flour")
        /\ dbProducts["flour"] < 0

\* C17, what the code does: each checkout stores its own snapshot minus its
\* own deduction, so a stored quantity is never negative, and after both
\* checkouts the row holds what one of them alone would have left
C17_StoredStockNeverNegative ==
    /\ \A id \in DOMAIN dbProducts : dbProducts[id] >= 0
    /\ BothTabsOversold =>
          dbProducts["flour"] > TwoTabsInitFlourStock - SoldOfItem("flour")

-----------------------------------------------------------------------------
(* C18 *)

\* tab t has a call of handleCheckout between setIsCheckingOut(true) and its
\* finally block
InFlight(t) == checkout[t].pc # "idle"

\* the step in which a call of handleCheckout in tab t passes validation
StartsCheckout(t) ==
    /\ checkout'[t] # checkout[t]
    /\ checkout'[t].pc = "insert"

\* C18: within one tab, from setIsCheckingOut(true) to the finally block no
\* second checkout can be started: isCheckingOut is set exactly while a call
\* is in flight, the handler cannot run then, a call only starts from the
\* idle tab with a transaction id of its own, and rows are only inserted
\* under the id of the one call in flight.
C18_OneCheckoutInFlightPerTab ==
    /\ [](\A t \in Tabs : isCheckingOut[t] <=> InFlight(t))
    /\ [](\A t \in Tabs : InFlight(t) => ~ENABLED handleCheckout(t))
    /\ [][\A t \in Tabs :
             StartsCheckout(t) =>
                 /\ ~InFlight(t)
                 /\ ~isCheckingOut[t]
                 /\ uuidCount' = uuidCount + 1
                 /\ checkout'[t].transactionId = uuidCount']_vars
    /\ [][dbSales' # dbSales =>
             \E t \in Tabs :
                 /\ InFlight(t)
                 /\ TransactionIds(InsertedRows) = {checkout[t].transactionId}]_vars

\* a checkout is in flight while the cart and the selections on the page
\* would pass the validation of another one that the bound still allows
C18_Witness ==
    \E t \in Tabs :
        /\ InFlight(t)
        /\ isCheckingOut[t]
        /\ CheckoutRejection(t) = ""
        /\ uuidCount < checkoutCap

-----------------------------------------------------------------------------
(* C19 *)

\* the three selections of the page
Selections ==
    << selectedPaymentMethod, selectedCustomerType, selectedDineInTakeout >>

\* a step of addToCart or of updateCartQuantity of tab t, with any input,
\* that is not a stuttering step
CartMutationStep(t) ==
    /\ cart'[t] # cart[t]
    /\ \/ \E p \in ProductIds, q \in 0..MaxQuantityInput : addToCart(t, p, q)
       \/ \E i \in 1..Len(cart[t]), q \in 1..(MaxQuantityInput + 1) :
              updateCartQuantity(t, cart[t][i].product, q)

\* C19: a rejected cart mutation leaves the cart exactly as it was: addToCart
\* with quantity <= 0 or quantity > getMaxQuantity, and updateCartQuantity
\* with a positive quantity > getMaxQuantity, change neither the lines of the
\* cart, their order, nor a quantity; and no cart mutation touches the
\* selections.
C19_RejectedMutationChangesNothing ==
    /\ [](RecipePage =>
             \A t \in Tabs, p \in ProductIds, q \in 0..MaxQuantityInput :
                 (q <= 0 \/ q > getMaxQuantity(t, p)) =>
                     CartAfterAdd(t, p, q) = cart[t])
    /\ [](RecipePage =>
             \A t \in Tabs :
                 \A i \in 1..Len(cart[t]), q \in 1..(MaxQuantityInput + 1) :
                     q > getMaxQuantity(t, cart[t][i].product) =>
                         CartAfterUpdate(t, cart[t][i].product, q) = cart[t])
    /\ [][RecipePage =>
             \A t \in Tabs : CartMutationStep(t) => UNCHANGED Selections]_vars

\* a cart with a line and the selections made, where raising the line by one
\* exceeds the maximum and an add of some product would too
C19_Witness ==
    /\ RecipePage
    /\ \E t \in Tabs :
          /\ selectedPaymentMethod[t] # ""
          /\ selectedCustomerType[t] # ""
          /\ \E i \in 1..Len(cart[t]) :
                /\ cart[t][i].quantity >= 1
                /\ cart[t][i].quantity + 1 > getMaxQuantity(t, cart[t][i].product)
                /\ UpdateRejection(t, cart[t][i].product, cart[t][i].quantity + 1) # ""
          /\ \E p \in ProductIds, q \in 1..MaxQuantityInput :
                /\ getMaxQuantity(t, p) >= 1
                /\ q > getMaxQuantity(t, p)
                /\ AddToCartRejection(t, p, q) # ""

-----------------------------------------------------------------------------
(* C20 *)

\* the tables of the database
Database == << dbProducts, dbSales, dbDineInSetting >>

\* the state of the page in tab u that the cart operations work on
CartState(u) ==
    << cart[u], selectedPaymentMethod[u], selectedCustomerType[u],
       selectedDineInTakeout[u] >>

\* the rest of the state of the page in tab u
PageState(u) ==
    << loading[u], inventoryItems[u], productIngredients[u], dineInEnabled[u],
       isCheckingOut[u], checkout[u], fetches[u], recentSales[u] >>

\* a step of addToCart, updateCartQuantity, removeFromCart or clearCart of
\* tab t, with any input, that is not a stuttering step
CartOperationStep(t) ==
    /\ cart' # cart \/ Selections' # Selections
    /\ \/ \E p \in ProductIds, q \in 0..MaxQuantityInput : addToCart(t, p, q)
       \/ \E i \in 1..Len(cart[t]), q \in 0..(MaxQuantityInput + 1) :
              updateCartQuantity(t, cart[t][i].product, q)
       \/ \E i \in 1..Len(cart[t]) : removeFromCart(t, cart[t][i].product)
       \/ clearCart(t)

\* C20: addToCart, updateCartQuantity, removeFromCart and clearCart change
\* only the cart and the selections of their own tab: the stored inventory
\* and the stored sale records, the other tabs and the rest of the page stay
\* as they are; a step that writes to the database belongs to a call of
\* handleCheckout that is in flight.
C20_CartOperationsAreTabLocal ==
    /\ [][\A t \in Tabs :
             CartOperationStep(t) =>
                 /\ UNCHANGED Database
                 /\ PageState(t)' = PageState(t)
                 /\ \A u \in Tabs \ {t} :
                       /\ CartState(u)' = CartState(u)
                       /\ PageState(u)' = PageState(u)]_vars
    /\ [][Database' # Database =>
             \E t \in Tabs :
                 /\ checkout[t].pc \in {"insert", "updates"}
                 /\ checkout'[t] # checkout[t]]_vars

\* after cart operations in both tabs, which hold different carts, the
\* database is as it was at the start
C20_Witness ==
    /\ Tabs = TwoTabs
    /\ cart[1] # << >>
    /\ cart[2] = << >>
    /\ selectedPaymentMethod[2] # ""
    /\ selectedPaymentMethod[1] = ""
    /\ uuidCount = 0
    /\ dbSales = << >>
    /\ dbProducts = [egg |-> InitEggStock, flour |-> TwoTabsInitFlourStock]

-----------------------------------------------------------------------------
(* C21 *)

\* the step in which the sale insert of tab t's checkout comes back with an
\* error
InsertFails(t) ==
    /\ checkout[t].pc = "insert"
    /\ checkout'[t].pc = "idle"
    /\ dbSales' = dbSales

\* the step in which tab t's checkout ends as a failure
CheckoutFailureStep(t) ==
    \/ InsertFails(t)
    \/ UpdatesSettle(t) /\ AnUpdateFailed(t)

\* line 537: the Complete Purchase button of tab t is enabled
ButtonEnabled(t) ==
    /\ ~isCheckingOut[t]
    /\ selectedPaymentMethod[t] # ""
    /\ selectedCustomerType[t] # ""
    /\ ~(dineInEnabled[t] /\ selectedDineInTakeout[t] = Null)

\* C21: a checkout that passed validation (isCheckingOut is true) eventually
\* leaves the in-flight state, whichever of the insert and the updates fail
\* or succeed, provided each remote call returns; the step that ends a
\* checkout as a failure sets isCheckingOut back to false and leaves the
\* selections alone, so the Complete Purchase button is enabled again
\* whenever the selections are still made.
C21_CheckoutLeavesInFlight ==
    /\ \A t \in RefreshTabs : isCheckingOut[t] ~> ~isCheckingOut[t]
    /\ [][\A t \in RefreshTabs :
             (checkout'[t] # checkout[t] /\ CheckoutFailureStep(t)) =>
                 /\ ~isCheckingOut'[t]
                 /\ checkout'[t] = Idle
                 /\ Selections' = Selections
                 /\ (selectedPaymentMethod[t] # "" /\ selectedCustomerType[t] # "")
                        => ButtonEnabled(t)']_vars

\* after a checkout that failed (nothing was announced), a second checkout
\* of the same tab is in flight
C21_Witness ==
    \E t \in RefreshTabs :
        /\ uuidCount = 2
        /\ isCheckingOut[t]
        /\ checkout[t].pc = "insert"
        /\ recentSales[t] = << >>

-----------------------------------------------------------------------------
(* C22 *)

\* quantities asked of canSellProduct: the integers from 1 to one above the
\* largest the modal takes
SellQuantities == 1..(MaxQuantityInput + 1)

\* canSellProduct and getMaxQuantity of tab t agree on product p
AgreeOn(t, p) ==
    \A q \in SellQuantities :
        canSellProduct(t, p, q) <=> (q <= getMaxQuantity(t, p))

\* the recipe the tab holds for p has a line of quantity 0
HasZeroLine(t, p) ==
    \E j \in 1..Len(IngredientsOf(productIngredients[t], p)) :
        IngredientsOf(productIngredients[t], p)[j].qty = 0

\* C22: for every product P, every integer q >= 1 and every inventory and
\* cart state, canSellProduct(P, q) is true if and only if
\* q <= getMaxQuantity(P).
C22_CanSellIffWithinMax ==
    RecipePage => \A t \in Tabs, p \in ProductIds : AgreeOn(t, p)

\* the two functions agree on every product whose recipe has no line of
\* quantity 0 (line 143 answers 0 for such a line, line 131 lets it pass)
C22_AgreeWithoutZeroLine ==
    RecipePage =>
        \A t \in Tabs, p \in ProductIds : ~HasZeroLine(t, p) => AgreeOn(t, p)

-----------------------------------------------------------------------------
(* C23 *)

\* what the cart a checkout of tab t was submitted with needs of an item, in
\* the unit of table products
OwnDeduction(t, itemId) ==
    ToStorageUnit(itemId,
                  RequiredOfItem(productIngredients[t], checkout[t].cart, itemId))

\* a step that changes table products is one update of a checkout in flight:
\* it writes one row, and the value is the quantity the checkout's own
\* snapshot holds minus the checkout's own deduction, whatever is stored
WritesSnapshotMinusOwnDeduction ==
    \E t \in Tabs :
        /\ checkout[t].pc = "updates"
        /\ \E id \in ItemsOfCart(productIngredients[t], checkout[t].cart) :
              dbProducts' =
                  [dbProducts EXCEPT ![id] =
                      RoundDecimal2(SnapshotQty(checkout[t].inventoryItems, id)
                                        - OwnDeduction(t, id))]

\* what the stored sale records of one transaction need of an item, in the
\* unit of table products
SoldInTransaction(id, itemId) ==
    ToStorageUnit(itemId,
        SumFn([k \in {k \in 1..Len(dbSales) : dbSales[k].transaction_id = id} |->
                  SumFn([j \in {j \in 1..Len(IngredientRows) :
                                   /\ IngredientRows[j].product_id = dbSales[k].product_id
                                   /\ IngredientRows[j].item_id = itemId} |->
                            IngredientRows[j].qty * dbSales[k].qty])]))

\* two checkouts were started, each tab has completed one and each took
\* flour; each was validated against the snapshot taken at start
BothTabsSoldFlour ==
    /\ Tabs = TwoTabs
    /\ uuidCount = 2
    /\ \A t \in Tabs : recentSales[t] # << >> /\ checkout[t].pc = "idle"
    /\ \A id \in 1..2 : SoldInTransaction(id, "flour") > 0

\* C23: every inventory update of a checkout writes the absolute value
\* snapshot quantity minus own deduction, not a decrement of the stored
\* value; after two tabs with the same snapshot have both checked out the
\* same ingredient, the stored quantity is that snapshot minus the deduction
\* of one checkout only, while the sale records of both are stored.
C23_AbsoluteWriteLosesOtherDeduction ==
    /\ [][dbProducts' # dbProducts => WritesSnapshotMinusOwnDeduction]_vars
    /\ [](BothTabsSoldFlour =>
             /\ \E id \in 1..2 :
                   dbProducts["flour"] =
                       TwoTabsInitFlourStock - SoldInTransaction(id, "flour")
             /\ TransactionIds(dbSales) = {1, 2}
             /\ SoldOfItem("flour") >
                    TwoTabsInitFlourStock - dbProducts["flour"])

\* both tabs sold A once from the snapshot of 0.25 kg of flour: 400 g were
\* sold and the table holds 0.25 - 0.2 = 0.05 kg
C23_Witness ==
    /\ BothTabsSoldFlour
    /\ Len(dbSales) = 2
    /\ SoldOfItem("flour") = 400
    /\ dbProducts["flour"] = 50

-----------------------------------------------------------------------------
(* C24 *)

\* the step in which the last pending update of tab t's checkout is applied
\* and no update of that checkout was refused: the checkout is a successful
\* one; every checkout started before it succeeded as well
LastWriteOfSuccessfulCheckout(t) ==
    /\ checkout[t].pc = "updates"
    /\ Len(recentSales[t]) = checkout[t].transactionId - 1
    /\ checkout[t].inventoryErrors = 0
    /\ Cardinality(checkout[t].pending) = 1
    /\ checkout'[t].pc = "updates"
    /\ checkout'[t].pending = {}
    /\ checkout'[t].inventoryErrors = 0

\* no row of table products holds more after the step than before
NoStockRaised == \A id \in DOMAIN dbProducts : dbProducts'[id] <= dbProducts[id]

\* C24: in a single tab with no other writer a successful checkout never
\* raises the stored quantity of an ingredient, also when it is a second
\* checkout submitted after a first one succeeded and before the refresh the
\* first started has delivered the new snapshot.
C24_CheckoutNeverRaisesStock ==
    [][\A t \in Tabs : LastWriteOfSuccessfulCheckout(t) => NoStockRaised]_vars

\* what holds: the writes of the first checkout of the tab, whose snapshot is
\* the stored inventory, raise nothing
C24_FirstCheckoutNeverRaisesStock ==
    [][\A t \in Tabs :
          (checkout[t].pc = "updates" /\ checkout[t].transactionId = 1)
              => NoStockRaised]_vars

-----------------------------------------------------------------------------
(* C25 *)

\* no row of table products holds a negative quantity
StoredStockNonNegative == \A id \in DOMAIN dbProducts : dbProducts[id] >= 0

\* C25: in a single tab whose snapshot matches the store and has
\* non-negative stock, a checkout that passed canSellProduct for every cart
\* line never writes a negative quantity for an ingredient, also when a
\* recipe lists the same ingredient in two recipe lines.
C25_NoNegativeWriteWithDuplicateLine ==
    (Cardinality(Tabs) = 1 /\ dbIngredients = DuplicateLineRows)
        => StoredStockNonNegative

\* what holds: with recipes that list each ingredient at most once, the one
\* checkout of the tab writes no negative quantity
C25_NoNegativeWriteWithoutDuplicateLine ==
    (Cardinality(Tabs) = 1 /\ dbIngredients = IngredientRows /\ RecipePage)
        => StoredStockNonNegative

-----------------------------------------------------------------------------
(* C26 *)

\* the snapshot of tab t holds no negative stock
SnapshotNonNegative(t) ==
    \A k \in 1..Len(inventoryItems[t]) : inventoryItems[t][k].qty >= 0

\* for every ingredient the cart's recipes name, the sum over all cart lines
\* of recipe quantity x line quantity is at most the snapshot's stock in the
\* recipe unit
CartWithinStock(ingredients, items, crt) ==
    \A id \in ItemsOfCart(ingredients, crt) :
        /\ FindItemIndex(items, id) # 0
        /\ RequiredOfItem(ingredients, crt, id) <= StockInRecipeUnit(items, id)

\* the cart of tab t is within the stock of the tab's snapshot
Reserved(t) == CartWithinStock(productIngredients[t], inventoryItems[t], cart[t])

\* no refresh has replaced the snapshot the page was mounted with: a refresh
\* is only started by a completed checkout, which announces a sale
SnapshotOfMount(t) == recentSales[t] = << >>

\* C26: with an unchanged snapshot of non-negative stock and recipes that
\* list each ingredient at most once, after any sequence of addToCart,
\* updateCartQuantity and removeFromCart the cart's need of every ingredient
\* is at most the stock, hence the re-validation of handleCheckout passes
\* for every line: the cart is within stock as long as the snapshot is the
\* one of the mount, and no step that keeps the snapshot takes a cart that
\* is within stock to one that is not.
C26_CartReservationWithinStock ==
    /\ [](RecipePage =>
             \A t \in Tabs :
                 (SnapshotOfMount(t) /\ SnapshotNonNegative(t)) =>
                     /\ Reserved(t)
                     /\ FirstUnsellable(t) = 0)
    /\ [][RecipePage =>
             \A t \in Tabs :
                 (/\ cart'[t] # cart[t]
                  /\ inventoryItems'[t] = inventoryItems[t]
                  /\ SnapshotNonNegative(t)
                  /\ Reserved(t)) => Reserved(t)']_vars

\* a cart of two lines that takes all the flour of the snapshot, ready for
\* checkout
C26_Witness ==
    /\ RecipePage
    /\ \E t \in Tabs :
          /\ SnapshotOfMount(t)
          /\ Len(cart[t]) = 2
          /\ RequiredOfItem(productIngredients[t], cart[t], "flour")
                 = StockInRecipeUnit(inventoryItems[t], "flour")
          /\ CheckoutRejection(t) = ""

-----------------------------------------------------------------------------
(* C27 *)

\* the sale records a checkout in flight holds are those of the cart it was
\* submitted with, line by line
RecordsOfSubmittedCart(t) ==
    LET records == IF checkout[t].pc = "insert" THEN checkout[t].saleRecords
                   ELSE checkout[t].saleData
    IN /\ Len(records) = Len(checkout[t].cart)
       /\ \A i \in 1..Len(records) :
             /\ records[i].product_id = checkout[t].cart[i].product
             /\ records[i].qty = checkout[t].cart[i].quantity

\* the deductions a checkout in flight holds are what the cart it was
\* submitted with needs, ingredient by ingredient
DeductionsOfSubmittedCart(t) ==
    LET deductions == checkout[t].ingredientDeductions
    IN /\ {deductions[k].item_id : k \in 1..Len(deductions)}
              = ItemsOfCart(productIngredients[t], checkout[t].cart)
       /\ \A k \in 1..Len(deductions) :
             deductions[k].deduction =
                 RequiredOfItem(productIngredients[t], checkout[t].cart,
                                deductions[k].item_id)

\* the cart of tab t is no longer the one its checkout in flight was
\* submitted with
CartChangedInFlight(t) ==
    /\ InFlight(t)
    /\ cart[t] # checkout[t].cart

\* the step in which tab t's checkout ends as a success
CheckoutSuccessStep(t) ==
    /\ InFlight(t)
    /\ checkout'[t].pc = "idle"
    /\ recentSales'[t] # recentSales[t]

\* C27: the sale records and the inventory deductions of a checkout are
\* those of the cart as it was when the checkout was submitted; a cart line
\* added or changed while the checkout is in flight changes neither, the rows
\* the insert stores are the submitted lines, and the step that ends the
\* checkout as a success empties the whole cart, those lines included.
C27_CheckoutUsesSubmittedCart ==
    /\ [](\A t \in Tabs :
             InFlight(t) =>
                 /\ RecordsOfSubmittedCart(t)
                 /\ DeductionsOfSubmittedCart(t))
    /\ [][\A t \in Tabs :
             (cart'[t] # cart[t] /\ InFlight(t) /\ checkout'[t].pc # "idle")
                 => checkout'[t] = checkout[t]]_vars
    /\ [][\A t \in Tabs :
             (dbSales' # dbSales /\ InFlight(t)) =>
                 /\ Len(InsertedRows) = Len(checkout[t].cart)
                 /\ \A i \in 1..Len(InsertedRows) :
                       /\ InsertedRows[i].product_id = checkout[t].cart[i].product
                       /\ InsertedRows[i].qty = checkout[t].cart[i].quantity]_vars
    /\ [][\A t \in Tabs :
             (checkout'[t] # checkout[t] /\ CheckoutSuccessStep(t))
                 => cart'[t] = << >>]_vars

\* the insert of a checkout of one line has stored its record, every update
\* has been applied, and the cart meanwhile holds a line of another product:
\* that line is in no sale record
C27_Witness ==
    \E t \in Tabs :
        /\ checkout[t].pc = "updates"
        /\ checkout[t].pending = {}
        /\ checkout[t].inventoryErrors = 0
        /\ Len(checkout[t].cart) = 1
        /\ Len(dbSales) = 1
        /\ \E i \in 1..Len(cart[t]) :
              /\ cart[t][i].product # checkout[t].cart[1].product
              /\ \A k \in 1..Len(dbSales) : dbSales[k].product_id # cart[t][i].product

-----------------------------------------------------------------------------
(* C28 *)

\* the sale records of tab t's checkout are stored: its insert has returned
\* without error
SaleRecordsPersisted(t) ==
    /\ checkout[t].pc = "updates"
    /\ checkout[t].saleData # << >>
    /\ RowsOf(checkout[t].saleData) \subseteq RowsOf(dbSales)
    /\ TransactionIds(checkout[t].saleData) = {checkout[t].transactionId}

\* table products is as it was at the start
StockUntouched ==
    /\ dbProducts["egg"] = InitEggStock
    /\ dbProducts["flour"] \in InitFlourStocks \cup SimpleInitFlourStocks

\* C28: no inventory update of a checkout is applied before its sale insert
\* has returned without error, and a checkout whose insert fails changes no
\* inventory quantity (it ends there): every step that changes table
\* products belongs to a checkout whose sale records are stored, the step in
\* which an insert fails changes neither table, and while no sale record is
\* stored the inventory is untouched.
C28_NoUpdateBeforePersistedSale ==
    /\ [][dbProducts' # dbProducts =>
             \E t \in Tabs : SaleRecordsPersisted(t)]_vars
    /\ [][\A t \in Tabs :
             (checkout'[t] # checkout[t] /\ InsertFails(t)) =>
                 /\ dbProducts' = dbProducts
                 /\ checkout'[t] = Idle]_vars
    /\ [](dbSales = << >> => StockUntouched)

\* a checkout whose insert failed is over: nothing is stored, the inventory
\* is untouched and the cart is still there
C28_Witness ==
    \E t \in Tabs :
        /\ uuidCount = 1
        /\ checkout[t].pc = "idle"
        /\ ~isCheckingOut[t]
        /\ dbSales = << >>
        /\ StockUntouched
        /\ cart[t] # << >>

-----------------------------------------------------------------------------
(* C29 *)

\* a sale record without its transaction id
WithoutTransactionId(record) == [record EXCEPT !.transaction_id = 0]

\* the sale records of a checkout, without their transaction ids
LinesOfRecords(records) ==
    [i \in 1..Len(records) |-> WithoutTransactionId(records[i])]

\* the closure a call of handleCheckout in tab t would hold at its insert
Retry(t) == CheckoutClosure(t, uuidCount + 1)

\* the records of the checkout in flight of tab t, as table sales stores them
BuiltRecords(t) ==
    IF checkout[t].pc = "insert" THEN StoredSaleRows(checkout[t].saleRecords)
    ELSE checkout[t].saleData

\* the user has left the cart, the selections and the snapshot of tab t as
\* they were when the checkout in flight was submitted
AsSubmitted(t) ==
    /\ cart[t] = checkout[t].cart
    /\ inventoryItems[t] = checkout[t].inventoryItems
    /\ selectedPaymentMethod[t] = BuiltRecords(t)[1].payment_method
    /\ selectedCustomerType[t] = BuiltRecords(t)[1].customer_type

\* C29: the step that ends a checkout as a failure (insert error or update
\* error) leaves the cart, the selections and the snapshot as they are and
\* starts no refresh; a retry from the state it leaves draws a transaction
\* id no stored record has, builds the same sale records for the same cart
\* under that id, and its inventory updates carry the same absolute values as
\* those of the failed attempt; every checkout that starts takes an id no
\* stored record has.
C29_FailureKeepsStateRetryRepeats ==
    /\ [][\A t \in Tabs :
             (checkout'[t] # checkout[t] /\ CheckoutFailureStep(t)) =>
                 /\ cart' = cart
                 /\ Selections' = Selections
                 /\ inventoryItems' = inventoryItems
                 /\ fetches' = fetches
                 /\ recentSales' = recentSales
                 /\ AsSubmitted(t) =>
                       /\ Retry(t)'.transactionId \notin TransactionIds(dbSales')
                       /\ Retry(t)'.transactionId # checkout[t].transactionId
                       /\ Retry(t)'.cart = checkout[t].cart
                       /\ LinesOfRecords(StoredSaleRows(Retry(t)'.saleRecords))
                              = LinesOfRecords(BuiltRecords(t))
                       /\ InventoryUpdates(Retry(t)'.ingredientDeductions,
                                           Retry(t)'.inventoryItems)
                              = InventoryUpdates(checkout[t].ingredientDeductions,
                                                 checkout[t].inventoryItems)]_vars
    /\ [][\A t \in Tabs :
             (checkout[t].pc = "idle" /\ checkout'[t].pc = "insert") =>
                 /\ checkout'[t].transactionId \notin TransactionIds(dbSales)
                 /\ checkout'[t].cart = cart[t]]_vars

\* a checkout of one line failed at its inventory update and the retry went
\* through: two records of the same line under two transaction ids, one sale
\* announced, and flour stored as the snapshot minus one deduction
C29_Witness ==
    \E t \in Tabs :
        /\ uuidCount = 2
        /\ checkout[t].pc = "idle"
        /\ Len(recentSales[t]) = 1
        /\ Len(dbSales) = 2
        /\ WithoutTransactionId(dbSales[1]) = WithoutTransactionId(dbSales[2])
        /\ dbSales[1].transaction_id # dbSales[2].transaction_id
        /\ dbProducts["flour"] =
               TwoCheckoutsInitFlourStock - SoldInTransaction(2, "flour")
        /\ dbProducts["flour"] < TwoCheckoutsInitFlourStock


-----------------------------------------------------------------------------
(* C30 *)
(* Simple-product page: every cart line has a quantity above zero and at   *)
(* most the quantity of the product row captured in the line, and a        *)
(* successful checkout of a single tab writes no negative quantity.        *)
(* addToCart (809-836) checks the typed quantity against the row of the    *)
(* current products list and, when the product is already in the cart,     *)
(* stores it in the line that keeps the row captured earlier (line 824).   *)
(* After two checkouts the list can show more than the captured row: the   *)
(* first sells 2 eggs of 3 (stock 1), the second, submitted before the     *)
(* refresh arrived, sells 1 of the 3 it still saw (stock 2); a line added  *)
(* while the list shows 1 captures 1, and once the list shows 2 Add stores *)
(* quantity 2 in it.  handleCheckout (887-893) then refuses the cart, and  *)
(* updateCartQuantity (843-860) refuses every step but removal.            *)

LineWithinCapturedQuantity(line) ==
    /\ 0 < line.quantity
    /\ line.quantity <= line.product.qty

CartLinesWithinCapturedQuantity ==
    \A t \in Tabs : \A i \in 1..Len(cart[t]) :
        LineWithinCapturedQuantity(cart[t][i])

C30_CartLinesWithinCapturedQuantity ==
    SimplePage => CartLinesWithinCapturedQuantity /\ StoredStockNonNegative

\* what does hold: quantities stay above zero, the lines of a checkout in
\* flight are within their captured rows, and no negative quantity is stored
C30_SubmittedLinesWithinCapturedQuantity ==
    SimplePage =>
        /\ \A t \in Tabs : \A i \in 1..Len(cart[t]) : 0 < cart[t][i].quantity
        /\ \A t \in Tabs :
               checkout[t].pc # "idle" =>
                   \A i \in 1..Len(checkout[t].cart) :
                       LineWithinCapturedQuantity(checkout[t].cart[i])
        /\ StoredStockNonNegative

=============================================================================
